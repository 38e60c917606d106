---------------------------- MODULE ConsoleLock ----------------------------
(* What the console arbiter promises (spec section 4.7; section 5,         *)
(* invariant 4).  The console is a single slot owned by the log or by one  *)
(* record.  Records that want it wait in a first-in first-out list that    *)
(* holds each record once; a record never waits for the console it owns.  *)
(* When the owner gives the console up it goes to the first waiter, and    *)
(* back to the log when nobody waits.  A waiter that no longer wants the   *)
(* console passes it straight on, so one step may hand it down the list    *)
(* several places.  Nobody else ever takes it.                             *)
EXTENDS Sequences, SequencesExt

CONSTANTS
    Clients,  \* the records that may ask for the console
    Log       \* the log, which owns the console while nobody else does

VARIABLES
    owner,    \* who has the console
    waiters   \* the queue of records waiting for it

cvars == <<owner, waiters>>

Init == owner = Log /\ waiters = <<>>

\* A record that neither owns the console nor waits for it joins the queue.
Wait(c) ==
    /\ c # owner
    /\ c \notin ToSet(waiters)
    /\ waiters' = Append(waiters, c)
    /\ UNCHANGED owner

\* A waiter leaves the queue without having had the console.
Leave(c) ==
    /\ c \in ToSet(waiters)
    /\ waiters' = SelectSeq(waiters, LAMBDA x : x # c)
    /\ UNCHANGED owner

\* The owner gives the console up and the k-th waiter keeps it; the k - 1
\* waiters before it had it in turn and gave it back at once.
HandOver(k) ==
    /\ owner' = waiters[k]
    /\ waiters' = SubSeq(waiters, k + 1, Len(waiters))

\* Every waiter had the console and gave it back, or nobody waited: the
\* log takes it back.
ToLog ==
    /\ owner # Log \/ waiters # <<>>
    /\ owner' = Log
    /\ waiters' = <<>>

Next ==
    \/ \E c \in Clients : Wait(c) \/ Leave(c)
    \/ \E k \in 1 .. Len(waiters) : HandOver(k)
    \/ ToLog

Spec == Init /\ [][Next]_cvars

=============================================================================
