----------------------------- MODULE AbsConsole -----------------------------
(* What the console's line discipline promises (spec.md 4.5), without a    *)
(* ring or indexes.  Typed characters go to the line being edited; a       *)
(* newline or ^D ends the line and hands it to readers, and so does a line *)
(* that fills the buffer.  Backspace takes back the last character of the  *)
(* line being edited and ^U the whole of it; neither reaches into input    *)
(* already handed over.  Readers take handed-over input in the order it    *)
(* was typed; a ^D they take is not copied to them.                         *)
EXTENDS Naturals, Sequences

CONSTANTS
    BUF,     \* characters the console holds at once
    Chars    \* ordinary characters

NL == "NL"      \* '\n'
EOT == "EOT"    \* C('D')

VARIABLES
    unread,  \* handed over, not yet taken by a reader
    line,    \* being edited
    out      \* every character copied to a reader so far, in order

vars == <<unread, line, out>>

Init == unread = <<>> /\ line = <<>> /\ out = <<>>

(* A character joins the line if the console has room for it; an end of   *)
(* line or a full console hands the line over.                             *)
Type(c) ==
    /\ Len(unread) + Len(line) < BUF
    /\ LET l == Append(line, c)
       IN IF c \in {NL, EOT} \/ Len(unread) + Len(l) = BUF
          THEN unread' = unread \o l /\ line' = <<>>
          ELSE line' = l /\ UNCHANGED unread
    /\ UNCHANGED out

Erase ==
    /\ line /= <<>>
    /\ line' = SubSeq(line, 1, Len(line) - 1)
    /\ UNCHANGED <<unread, out>>

KillLine ==
    /\ line' = <<>>
    /\ UNCHANGED <<unread, out>>

Take ==
    /\ unread /= <<>>
    /\ unread' = Tail(unread)
    /\ out' = IF Head(unread) = EOT THEN out ELSE Append(out, Head(unread))
    /\ UNCHANGED line

Next ==
    \/ \E c \in Chars \cup {NL, EOT} : Type(c)
    \/ Erase
    \/ KillLine
    \/ Take

Spec == Init /\ [][Next]_vars
=============================================================================
