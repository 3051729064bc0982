------------------------------ MODULE Channel ------------------------------
(***************************************************************************)
(* What a connection promises a side that frames correctly: while it is    *)
(* open, every message that is sent is delivered, once, whole and in the   *)
(* order of sending, any number of them at a time.                         *)
(***************************************************************************)
EXTENDS Naturals, Sequences

CONSTANT Messages

VARIABLES sent, delivered, open

vars == <<sent, delivered, open>>

Init == sent = <<>> /\ delivered = <<>> /\ open = TRUE

Send == /\ sent' \in Seq(Messages)
        /\ \E m \in {sent'[i] : i \in DOMAIN sent'} : sent' = Append(sent, m)
        /\ UNCHANGED delivered

Deliver == /\ \E n \in Len(delivered) + 1 .. Len(sent) : delivered' = SubSeq(sent, 1, n)
           /\ UNCHANGED sent

\* Nothing is promised of a step that closes the connection, nor later.
Next == open' => open /\ (Send \/ Deliver)

\* Weak fairness of Deliver while open, in words: again and again everything
\* is delivered, or something is.
Fairness == []<>(delivered = sent \/ ~open) \/ []<><<Deliver>>_vars

Spec == Init /\ [][Next]_vars /\ Fairness
=============================================================================
