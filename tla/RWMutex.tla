------------------------------- MODULE RWMutex -------------------------------
(***************************************************************************)
(* Go's sync.RWMutex as a value: a writer first announces itself, which    *)
(* stops new readers, then waits until the readers before it have left;    *)
(* when it unlocks, every reader that came meanwhile gets in, ahead of the *)
(* next writer.                                                            *)
(***************************************************************************)
CONSTANTS
    Proc,       \* goroutines
    Nobody      \* no goroutine

RWMutexes ==
    [writer  : Proc \cup {Nobody},      \* has announced itself, or holds
     readers : SUBSET Proc,             \* hold the read lock
     waiting : SUBSET Proc]             \* readers behind the writer

Unlocked == [writer |-> Nobody, readers |-> {}, waiting |-> {}]

RLock(rw, g) ==
    IF rw.writer = Nobody THEN [rw EXCEPT !.readers = @ \cup {g}]
                          ELSE [rw EXCEPT !.waiting = @ \cup {g}]

RUnlock(rw, g) == [rw EXCEPT !.readers = @ \ {g}]

Lock(rw, g) == [rw EXCEPT !.writer = g]

Unlock(rw) == [writer |-> Nobody, readers |-> rw.waiting, waiting |-> {}]

MayRead(rw, g) == g \in rw.readers
MayAnnounce(rw) == rw.writer = Nobody
MayWrite(rw, g) == rw.writer = g /\ rw.readers = {}
=============================================================================
