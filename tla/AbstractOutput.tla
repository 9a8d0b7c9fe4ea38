--------------------------- MODULE AbstractOutput ---------------------------
(***************************************************************************)
(* What the runtime promises of a print: the host receives the bytes of    *)
(* the text in order, each once, in as many pieces as it likes; the print  *)
(* ends when it has them all, or after the host has refused to take more.  *)
(***************************************************************************)
EXTENDS Naturals, Sequences

CONSTANT Texts      \* the texts that may be printed

VARIABLES
    text,           \* of the current or last print
    sent,           \* the bytes the host has taken of it
    status          \* "idle", "printing" or "refused"

vars == <<text, sent, status>>

Init == text = <<>> /\ sent = <<>> /\ status = "idle"

BeginPrint ==
    /\ status = "idle"
    /\ text' \in Texts
    /\ sent' = <<>>
    /\ status' = "printing"

Take ==
    /\ status = "printing"
    /\ \E k \in (Len(sent) + 1)..Len(text) : sent' = SubSeq(text, 1, k)
    /\ UNCHANGED <<text, status>>

Refuse ==
    /\ status = "printing"
    /\ status' = "refused"
    /\ UNCHANGED <<text, sent>>

End ==
    /\ status = "refused" \/ (status = "printing" /\ sent = text)
    /\ status' = "idle"
    /\ UNCHANGED <<text, sent>>

Next == BeginPrint \/ Take \/ Refuse \/ End

Spec == Init /\ [][Next]_vars /\ WF_vars(End)
=============================================================================
