-------------------------- MODULE DisplayRendering --------------------------
(***************************************************************************)
(* The drawing of internal/calendar/display.go: two lines of text in a     *)
(* frame of 72 by 16 pixels of three bytes, in a font of 4 by 6.           *)
(*                                                                         *)
(* A text is a sequence of characters (runes); a byte that is no UTF-8 is  *)
(* a character without a glyph.                                            *)
(***************************************************************************)
EXTENDS Integers, Sequences, FiniteSetsExt

CONSTANTS Spaces,     \* the characters strings.TrimSpace removes
          Font,       \* font4x6: six rows of four bits for each character it knows
          Capital,    \* the capital of each of the letters a to z
          Unknown,    \* the question mark
          Fallback    \* FallbackEventTitle

DisplayWidth         == 72
DisplayHeight        == 16
DisplayBytesPerPixel == 3
DisplayBufferSize    == DisplayWidth * DisplayHeight * DisplayBytesPerPixel
MaxDisplayChars      == 14

glyphWidth  == 4
glyphHeight == 6
glyphPitch  == 5

ASSUME RenderingAssumption == /\ Unknown \in DOMAIN Font
                              /\ \A r \in DOMAIN Font : Font[r] \in [1..glyphHeight -> 0..15]
                              /\ Len(Fallback) \in 1..MaxDisplayChars

-----------------------------------------------------------------------------

TrimSpace(s) == LET solid == {i \in 1..Len(s) : s[i] \notin Spaces}
                IN  IF solid = {} THEN <<>> ELSE SubSeq(s, Min(solid), Max(solid))

\* The text at its longest; countdowns are cut the same way.
Cut(s) == IF Len(s) > MaxDisplayChars THEN SubSeq(s, 1, MaxDisplayChars) ELSE s

TruncateTitle(summary) == LET trimmed == TrimSpace(summary)
                          IN  IF trimmed = <<>> THEN Fallback ELSE Cut(trimmed)

\* A lower-case letter without a glyph is drawn as its capital, anything else as "?".
Glyph(r) == IF r \in DOMAIN Font THEN Font[r]
            ELSE IF r \in DOMAIN Capital /\ Capital[r] \in DOMAIN Font THEN Font[Capital[r]]
            ELSE Font[Unknown]

\* rowBits & (1 << (glyphWidth - 1 - col)) of drawGlyph.
Bit(rows, row, col) == (rows[row + 1] \div 2^(glyphWidth - 1 - col)) % 2 = 1

\* The pixels drawString sets: a character begins as long as it is on the screen, and what
\* of it is outside is left out.
Drawn(text, startX, startY) ==
  {p \in (0..DisplayWidth - 1) \X (0..DisplayHeight - 1) :
     \E i \in 1..Len(text), row \in 0..glyphHeight - 1, col \in 0..glyphWidth - 1 :
       LET x == startX + glyphPitch * (i - 1) IN
       /\ x < DisplayWidth
       /\ p = <<x + col, startY + row>>
       /\ Bit(Glyph(text[i]), row, col)}

\* The colours: red, green and blue of the two lines of each mode.
TopColor(mode)    == IF mode = "busy" THEN <<255, 180, 0>> ELSE <<255, 255, 255>>
BottomColor(mode) == IF mode = "busy" THEN <<255, 60, 60>> ELSE <<100, 220, 255>>

\* setPixel writes its three bytes from here on.
Index(x, y) == (y * DisplayWidth + x) * DisplayBytesPerPixel

\* RenderFrame: the bytes of the frame.
RenderFrame(state) ==
  LET top    == Drawn(state.topLine, 1, 1)
      bottom == Drawn(state.bottomLine, 1, 9)
  IN  [k \in 0..DisplayBufferSize - 1 |->
         LET pixel == k \div DisplayBytesPerPixel
             p     == <<pixel % DisplayWidth, pixel \div DisplayWidth>>
             c     == (k % DisplayBytesPerPixel) + 1
         IN  IF p \in bottom THEN BottomColor(state.mode)[c]
             ELSE IF p \in top THEN TopColor(state.mode)[c] ELSE 0]

-----------------------------------------------------------------------------

\* The byte of the frame that shows one colour of one dot of the i-th character of a line,
\* and what it ought to be: lit or not, as the font says.
Shows(frame, text, startY, color) ==
  \A i \in 1..Len(text), row \in 0..glyphHeight - 1, col \in 0..glyphWidth - 1, c \in 1..3 :
    frame[Index(1 + glyphPitch * (i - 1) + col, startY + row) + c - 1] =
      IF Bit(Glyph(text[i]), row, col) THEN color[c] ELSE 0

\* Every dot of every character is in the frame where it belongs: no line runs out of the
\* screen or into the other, and no character into the next.
Legible(state) ==
  /\ Shows(RenderFrame(state), state.topLine, 1, TopColor(state.mode))
  /\ Shows(RenderFrame(state), state.bottomLine, 9, BottomColor(state.mode))
=============================================================================
