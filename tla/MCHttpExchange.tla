--------------------------- MODULE MCHttpExchange ---------------------------
EXTENDS HttpExchange

\* The bytes sent: "10;a=1" CR LF, 16 bytes and CR LF; "2" LF, 2 bytes and CR LF; "0" CR LF
\* and CR LF.  The data of the first chunk has digits and a line end in it.
Other(c) == [NoByte EXCEPT !.on = c]
Digits(hex, dec) == [on |-> "0", hex |-> hex, dec |-> dec, id |-> 0]
LineBreak == <<Other("CR"), Other("LF")>>
Numbered(bytes, n) == [k \in 1 .. Len(bytes) |-> [bytes[k] EXCEPT !.id = n + k]]
Xs(n) == [k \in 1 .. n |-> Other("x00")]
Line1 == <<Digits(16, 10), Digits(0, 0), Other(";"), [Other("a") EXCEPT !.hex = 10],
           Other("="), Digits(1, 1)>> \o LineBreak
Data1 == Numbered(Xs(1) \o <<Digits(3, 3)>> \o LineBreak \o Xs(12), 0)
Line2 == <<Digits(2, 2), Other("LF")>>
Data2 == Numbered(<<Digits(0, 0), Other("x00")>>, 16)
Line3 == <<Digits(0, 0)>> \o LineBreak
MCStream == Line1 \o Data1 \o LineBreak \o Line2 \o Data2 \o LineBreak \o Line3 \o LineBreak
MCChunks == <<[start |-> 0, line |-> 8, before |-> 0],
              [start |-> 26, line |-> 2, before |-> 16],
              [start |-> 32, line |-> 3, before |-> 18]>>
=============================================================================
