------------------------- MODULE MCCalendarDisplay -------------------------
(* CalendarDisplay with a meeting that is over when the clock stands still, two that overlap
   then, the first of them declined by somebody else, one that the user has declined and one
   that is cancelled; and DisplayRendering with a few characters of font4x6 (display.go). *)
EXTENDS CalendarDisplay, DisplayRendering

Meeting(s, from, to, status, answers) ==
  [summary |-> s, status |-> status, transparency |-> "opaque",
   start |-> from, end |-> to, attendees |-> answers]

Answer(who, response) == [self |-> FALSE, email |-> who, response |-> response]

MCItems == {Meeting(1, 0, 1, "confirmed", {}),
            Meeting(2, 0, 3, "confirmed", {Answer("other", "declined"), Answer("user", "accepted")}),
            Meeting(3, 1, 5, "confirmed", {}),
            Meeting(4, 0, 3, "confirmed", {Answer("user", "declined")}),
            Meeting(5, 0, 3, "cancelled", {})}

MCSpaces   == {" ", "tab"}
MCCapital  == [r \in {"b", "e", "z"} |->
                 CASE r = "b" -> "B" [] r = "e" -> "E" [] r = "z" -> "Z"]
MCFallback == <<"B", "B", "E">>
MCFont ==
  [r \in {" ", "?", "1", "B", "E"} |->
     CASE r = " " -> <<0, 0, 0, 0, 0, 0>>      [] r = "?" -> <<14, 1, 6, 0, 4, 0>>
       [] r = "1" -> <<4, 12, 4, 4, 14, 0>>    [] r = "B" -> <<14, 9, 14, 9, 14, 0>>
       [] r = "E" -> <<15, 8, 14, 8, 15, 0>>]

\* The longest lines there can be, of characters with a glyph, with a capital's, with none.
MCLongest == [i \in 1..MaxDisplayChars |->
                CASE i % 4 = 0 -> "b" [] i % 4 = 1 -> "E" [] i % 4 = 2 -> "z" [] OTHER -> "1"]

\* Lines as short and as long as the screen takes are legible; titles are cut and trimmed.
ASSUME DrawingExamples ==
  /\ \A mode \in {"idle", "busy"}, top, bottom \in {<<>>, <<"?", " ", "b">>, MCLongest} :
       Legible([mode |-> mode, topLine |-> top, bottomLine |-> bottom])
  /\ ~Legible([mode |-> "busy", topLine |-> Append(Append(MCLongest, "B"), "E"),
               bottomLine |-> <<>>])
  /\ TruncateTitle(<<" ", "tab">>) = MCFallback
  /\ TruncateTitle(<<" ", "b", " ", "e", "tab">>) = <<"b", " ", "e">>
  /\ \A n \in 12..17 : TruncateTitle([i \in 1..n |-> "e"]) = [i \in 1..(IF n > 14 THEN 14 ELSE n) |-> "e"]
=============================================================================
