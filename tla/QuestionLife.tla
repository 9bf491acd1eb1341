---------------------------- MODULE QuestionLife ----------------------------
(***************************************************************************)
(* What a voice session promises about each thing the visitor says: it is  *)
(* held once it has been heard, then either handed to one turn, which      *)
(* ends, or dropped.  It never comes back: nothing is answered twice and   *)
(* nothing dropped is answered later.  Several questions may move in one   *)
(* step, because the session joins what was said in one breath.            *)
(***************************************************************************)
CONSTANT Questions

VARIABLE status

Status == {"unsaid", "held", "answering", "over", "dropped"}

\* The only ways a question's standing changes.
Moves == {<<"unsaid", "held">>, <<"held", "answering">>, <<"held", "dropped">>,
          <<"answering", "over">>}

Init == status = [q \in Questions |-> "unsaid"]

Next == /\ status' \in [Questions -> Status]
        /\ \A q \in Questions : \/ status'[q] = status[q]
                                \/ <<status[q], status'[q]>> \in Moves

Spec == Init /\ [][Next]_status
=============================================================================
