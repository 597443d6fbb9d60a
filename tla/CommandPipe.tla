----------------------------- MODULE CommandPipe -----------------------------
(***************************************************************************)
(* What the command stream promises the contexts that feed it: every command *)
(* that a call asks for is issued exactly once and executed exactly once, in *)
(* the order of the calls, whatever the chunks it travels in.               *)
(***************************************************************************)
EXTENDS Naturals, Sequences, SequencesExt

CONSTANT Fresh   \* a command that gets its identity when it is issued

VARIABLES
    asked,    \* commands that calls have yet to issue, the next one first
    waiting,  \* commands issued and not begun, oldest first
    running   \* commands that are being executed

vars == <<asked, waiting, running>>

Init == asked = <<>> /\ waiting = <<>> /\ running = <<>>

(* A call begins, or finds that a flush must go before the rest of it. *)
Ask == IsSuffix(asked, asked') /\ UNCHANGED <<waiting, running>>

(* What leaves the calls is what enters the pipe. *)
Issue ==
    \E n \in 0 .. Len(asked) :
        /\ asked' = SubSeq(asked, n + 1, Len(asked))
        /\ IsPrefix(waiting, waiting') /\ Len(waiting') = Len(waiting) + n
        /\ \A i \in 1 .. n : asked[i] # Fresh => waiting'[Len(waiting) + i] = asked[i]
        /\ UNCHANGED running

(* What leaves the pipe is executed, all of it before more is taken. *)
Begin  == running = <<>> /\ waiting = running' \o waiting' /\ UNCHANGED asked
Finish == running' = <<>> /\ UNCHANGED <<asked, waiting>>

Next == Ask \/ Issue \/ Begin \/ Finish

Spec == Init /\ [][Next]_vars
=============================================================================
