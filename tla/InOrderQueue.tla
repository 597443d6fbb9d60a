---------------------------- MODULE InOrderQueue -----------------------------
(***************************************************************************)
(* What a submission queue promises its callers, without threads, locks or  *)
(* condition variables: lists are executed and retired, and presents are    *)
(* reported, in the order they were accepted; a list is retired only        *)
(* after the GPU has executed it, and it is given up unexecuted only when   *)
(* Vulkan fails, one list per failure.                                      *)
(***************************************************************************)
EXTENDS Naturals, Sequences, SequencesExt

CONSTANTS CmdLists, Presenters

VARIABLES
    inflight,   \* lists and presents accepted, oldest first
    executed,   \* those of the lists the GPU has completed
    failures    \* Vulkan failures so far

vars == <<inflight, executed, failures>>

Init == inflight = <<>> /\ executed = {} /\ failures = 0

Accept(e) ==
    /\ e \notin Range(inflight)
    /\ inflight' = Append(inflight, e)
    /\ UNCHANGED <<executed, failures>>

(* The oldest list that has not been executed is executed next. *)
Execute ==
    /\ \E i \in DOMAIN inflight :
          /\ inflight[i] \in CmdLists \ executed
          /\ \A j \in 1 .. i - 1 : inflight[j] \in executed
          /\ executed' = executed \cup {inflight[i]}
    /\ UNCHANGED <<inflight, failures>>

Retire ==
    /\ inflight # <<>> /\ Head(inflight) \in executed
    /\ executed' = executed \ {Head(inflight)}
    /\ inflight' = Tail(inflight)
    /\ UNCHANGED failures

(* The oldest present is reported. *)
Report ==
    /\ \E i \in DOMAIN inflight :
          /\ inflight[i] \in Presenters
          /\ \A j \in 1 .. i - 1 : inflight[j] \in CmdLists
          /\ inflight' = RemoveAt(inflight, i)
    /\ UNCHANGED <<executed, failures>>

(* A list is refused by Vulkan, or lost with the device. *)
GiveUp ==
    /\ \E i \in DOMAIN inflight :
          /\ inflight[i] \in CmdLists \ executed
          /\ \A j \in 1 .. i - 1 : inflight[j] \in CmdLists
          /\ inflight' = RemoveAt(inflight, i)
    /\ failures' = failures + 1
    /\ UNCHANGED executed

Next == Execute \/ Retire \/ Report \/ GiveUp
        \/ \E e \in CmdLists \cup Presenters : Accept(e)

Spec == Init /\ [][Next]_vars
=============================================================================
