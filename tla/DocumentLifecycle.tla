------------------------- MODULE DocumentLifecycle -------------------------
(***************************************************************************)
(* What the document queue promises, without leases, attempts, row objects *)
(* or time: a document is held by one worker at most, only its holder      *)
(* moves it from phase to phase, and what a dead worker held can only be   *)
(* put back in the queue.  The exceptions are part of the promise: the API *)
(* may delete a document at any moment, and a thread that a timeout        *)
(* abandoned may report on it until the thread ends.                       *)
(***************************************************************************)
CONSTANTS Docs, Workers

VARIABLES
    phase,   \* of each document
    held,    \* <<worker, document>>: who works on what
    threads  \* documents an abandoned thread may still report on

lifecycle == <<phase, held, threads>>

Absent == {"new", "deleted"}
Ends == {"success", "rejected", "retryable"}

Init ==
    /\ phase = [d \in Docs |-> "new"]
    /\ held = {}
    /\ threads = {}

Free(d) == \A w \in Workers : <<w, d>> \notin held
Idle(w) == \A d \in Docs : <<w, d>> \notin held
Becomes(d, p) == phase' = [phase EXCEPT ![d] = p]

Upload(d) ==
    /\ phase[d] = "new" /\ Free(d)
    /\ Becomes(d, "waiting")
    /\ UNCHANGED <<held, threads>>

Delete(d) ==
    /\ phase[d] \notin Absent
    /\ Becomes(d, "deleted")
    /\ UNCHANGED <<held, threads>>

Take(w, d) ==
    /\ phase[d] = "waiting" /\ Free(d) /\ Idle(w)
    /\ held' = held \union {<<w, d>>}
    /\ UNCHANGED <<phase, threads>>

\* A run goes on or ends, whether or not it can record that it did.  One that
\* cannot load its PDF brings back the row of a deleted document.
Write(w, d) ==
    /\ <<w, d>> \in held
    /\ \/ phase[d] \in {"waiting", "working"} /\ \E p \in {"working"} \union Ends : Becomes(d, p)
       \/ phase[d] = "deleted" /\ Becomes(d, "retryable")
    /\ UNCHANGED <<held, threads>>

\* A run is cut off, which it may fail to record, and a thread of it goes on.
Abandon(w, d) ==
    /\ <<w, d>> \in held
    /\ \/ phase[d] = "working" /\ Becomes(d, "retryable")
       \/ phase[d] \in {"working", "deleted"} /\ UNCHANGED phase
    /\ threads' = threads \union {d}
    /\ UNCHANGED held

\* The outcome is settled: left as it is, or retried, or given up.
Release(w, d) ==
    /\ <<w, d>> \in held
    /\ held' = held \ {<<w, d>>}
    /\ \/ UNCHANGED phase
       \/ phase[d] \in {"waiting", "working", "retryable"} /\ \E p \in {"waiting", "failed"} : Becomes(d, p)
    /\ UNCHANGED threads

\* Some workers die, and threads with them.
Die ==
    /\ \E W \in SUBSET Workers : held' = {h \in held : h[1] \notin W}
    /\ threads' \subseteq threads
    /\ UNCHANGED phase

\* Documents nobody works on any more are put back in the queue.
Recover ==
    /\ \E D \in SUBSET {d \in Docs : phase[d] = "working" /\ Free(d)} :
         phase' = [d \in Docs |-> IF d \in D THEN "waiting" ELSE phase[d]]
    /\ UNCHANGED <<held, threads>>

LateReport(d) ==
    /\ d \in threads /\ phase[d] \notin Absent
    /\ Becomes(d, "working")
    /\ UNCHANGED <<held, threads>>

Next ==
    \/ \E d \in Docs : Upload(d) \/ Delete(d) \/ LateReport(d)
    \/ \E w \in Workers, d \in Docs :
         Take(w, d) \/ Write(w, d) \/ Abandon(w, d) \/ Release(w, d)
    \/ Die
    \/ Recover

Spec == Init /\ [][Next]_lifecycle

=============================================================================
