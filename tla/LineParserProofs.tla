--------------------------- MODULE LineParserProofs ---------------------------
(***************************************************************************)
(* Proofs about LineParsers, for streams of any length and every way to    *)
(* cut them into segments: the cuts make no difference, ftp and smtp       *)
(* replies end with their last line, and no byte of a line is lost.        *)
(***************************************************************************)
EXTENDS LineParsers, NaturalLemmas, SequenceTheorems

AllKinds == {"text", "more", "last", "odd", "dot", "lit0", "lit2", "rlit2",
             "cr", "lf"}
Symbols  == AllKinds \X Nat
Lines   == Seq(Symbols)
States  == [commands : Seq(Lines), replies : Seq(Seq(Lines)), buffer : Lines,
            pending : Seq(Lines), multi : BOOLEAN, lit : Nat]

(* The parser with another buffer, and with data behind its buffer.        *)
With(s, b)   == [s EXCEPT !.buffer = b]
Fed(s, data) == With(s, s.buffer \o data)

(* What _lit_pending says: only IMAP has literals, and one that is awaited *)
(* has the line that announced it.                                         *)
LitSound(p, s) == s.lit > 0 => p = "imap" /\ s.pending # << >>
Good(p, s) == s \in States /\ LitSound(p, s)

-----------------------------------------------------------------------------
(* What a line does to a parser has nothing to do with the buffer behind   *)
(* it: the handlers commute with a change of the buffer.                   *)
LEMMA WithIs ==
  ASSUME NEW s \in States, NEW b \in Lines
  PROVE  /\ With(s, b) \in States
         /\ With(s, b).buffer = b /\ With(s, b).commands = s.commands
         /\ With(s, b).replies = s.replies /\ With(s, b).pending = s.pending
         /\ With(s, b).multi = s.multi /\ With(s, b).lit = s.lit
         /\ \A c \in Lines : With(With(s, b), c) = With(s, c)
         /\ With(s, s.buffer) = s
  BY DEF States, With

LEMMA CommandAlike ==
  ASSUME NEW s \in States, NEW b \in Lines, NEW line \in Lines
  PROVE  /\ Command(s, line) \in States /\ Command(s, line).buffer = s.buffer
         /\ Command(s, line).lit = s.lit
         /\ Command(With(s, b), line) = With(Command(s, line), b)
<1>1. Append(s.commands, line) \in Seq(Lines)
  BY DEF States
<1> HIDE DEF Lines
<1> QED BY <1>1 DEF States, With, Command

LEMMA ReplyAlike ==
  ASSUME NEW s \in States, NEW b \in Lines, NEW lines \in Seq(Lines)
  PROVE  /\ Reply(s, lines) \in States /\ Reply(s, lines).buffer = s.buffer
         /\ Reply(s, lines).lit = s.lit
         /\ Reply(With(s, b), lines) = With(Reply(s, lines), b)
<1>1. Append(s.replies, lines) \in Seq(Seq(Lines)) /\ << >> \in Seq(Lines)
  BY DEF States
<1> HIDE DEF Lines
<1> QED BY <1>1 DEF States, With, Reply

LEMMA HoldAlike ==
  ASSUME NEW s \in States, NEW b \in Lines, NEW line \in Lines
  PROVE  /\ Hold(s, line) \in States /\ Hold(s, line).buffer = s.buffer
         /\ Hold(s, line).lit = s.lit
         /\ Hold(With(s, b), line) = With(Hold(s, line), b)
<1>1. Append(s.pending, line) \in Seq(Lines)
  BY DEF States
<1> HIDE DEF Lines
<1> QED BY <1>1 DEF States, With, Hold

(* A handler's results t, on s, and u, on s with the buffer b.             *)
Alike(s, b, t, u) ==
  /\ t \in States /\ t.buffer = s.buffer /\ t.lit = s.lit
  /\ u = With(t, b)

LEMMA NumberedAlike ==
  ASSUME NEW s \in States, NEW b \in Lines, NEW text \in Lines, NEW Final
  PROVE  Alike(s, b, Numbered(s, text, Final), Numbered(With(s, b), text, Final))
<1>1. With(s, b).pending = s.pending
  BY WithIs
<1>2. Append(s.pending, text) \in Seq(Lines)
  BY DEF States
<1> HIDE DEF Lines
<1>3. CASE text = << >>
  BY <1>3 DEF Numbered, Alike
<1>4. CASE text # << >> /\ Kind(text) \notin {"more", "last", "odd"}
  BY <1>4, CommandAlike DEF Numbered, Alike
<1>5. CASE /\ text # << >> /\ Kind(text) \in {"more", "last", "odd"}
           /\ Kind(text) \in Final
  BY <1>1, <1>2, <1>5, ReplyAlike DEF Numbered, Alike
<1>6. CASE /\ text # << >> /\ Kind(text) \in {"more", "last", "odd"}
           /\ Kind(text) \notin Final
  BY <1>6, HoldAlike DEF Numbered, Alike
<1> QED BY <1>3, <1>4, <1>5, <1>6

LEMMA FlushAlike ==
  ASSUME NEW s \in States, NEW b \in Lines
  PROVE  Alike(s, b, FlushPending(s), FlushPending(With(s, b)))
<1>1. With(s, b).pending = s.pending /\ s.pending \in Seq(Lines)
  BY WithIs DEF States
<1> HIDE DEF Lines
<1> QED BY <1>1, ReplyAlike DEF FlushPending, Alike

LEMMA MultiAlike ==
  ASSUME NEW s \in States, NEW b \in Lines, NEW line \in Lines
  PROVE  Alike(s, b, [Hold(s, line) EXCEPT !.multi = TRUE],
                     [Hold(With(s, b), line) EXCEPT !.multi = TRUE])
<1>1. Append(s.pending, line) \in Seq(Lines)
  BY DEF States
<1> HIDE DEF Lines
<1> QED BY <1>1 DEF States, With, Hold, Alike

LEMMA PopDataAlike ==
  ASSUME NEW s \in States, NEW b \in Lines, NEW text \in Lines
  PROVE  Alike(s, b, PopData(s, text), PopData(With(s, b), text))
<1>1. With(s, b).pending = s.pending
  BY WithIs
<1>2. Append(s.pending, text) \in Seq(Lines)
  BY DEF States
<1> HIDE DEF Lines
<1>3. CASE text # << >> /\ Kind(text) = "dot"
  BY <1>1, <1>2, <1>3, ReplyAlike DEF PopData, Alike
<1>4. CASE ~ (text # << >> /\ Kind(text) = "dot")
  <2>1. /\ PopData(s, text) = [Hold(s, text) EXCEPT !.multi = TRUE]
        /\ PopData(With(s, b), text) = [Hold(With(s, b), text) EXCEPT !.multi = TRUE]
    BY <1>4 DEF PopData
  <2> QED BY <2>1, MultiAlike
<1> QED BY <1>3, <1>4

LEMMA PopLineAlike ==
  ASSUME NEW s \in States, NEW b \in Lines, NEW text \in Lines
  PROVE  Alike(s, b, PopLine(s, text), PopLine(With(s, b), text))
<1>1. With(s, b).pending = s.pending /\ With(s, b).multi = s.multi
  BY WithIs
<1>2. <<text>> \in Seq(Lines)
  OBVIOUS
<1> DEFINE f == FlushPending(s)
<1>3. /\ f \in States /\ f.buffer = s.buffer /\ f.lit = s.lit
      /\ FlushPending(With(s, b)) = With(f, b)
  BY FlushAlike DEF Alike
<1> HIDE DEF Lines
<1>4. CASE s.multi
  BY <1>1, <1>4, PopDataAlike DEF PopLine
<1>5. CASE ~ s.multi /\ text # << >> /\ Kind(text) = "last"
  <2> DEFINE one == <<text>>
  <2> HIDE DEF f
  <2>1. PopLine(s, text) = Reply(f, one)
    BY <1>5 DEF PopLine, f
  <2>2. PopLine(With(s, b), text) = Reply(With(f, b), one)
    BY <1>1, <1>3, <1>5 DEF PopLine
  <2>3. one \in Seq(Lines)
    BY <1>2
  <2> HIDE DEF one
  <2>4. /\ Reply(f, one) \in States /\ Reply(f, one).buffer = f.buffer
        /\ Reply(f, one).lit = f.lit
        /\ Reply(With(f, b), one) = With(Reply(f, one), b)
    BY <1>3, <2>3, ReplyAlike
  <2> QED BY <1>3, <2>1, <2>2, <2>4 DEF Alike
<1>6. CASE ~ s.multi /\ text # << >> /\ Kind(text) = "more"
  <2> HIDE DEF f
  <2>1. PopLine(s, text) = Hold(f, text)
    BY <1>6 DEF PopLine, f
  <2>2. PopLine(With(s, b), text) = Hold(With(f, b), text)
    BY <1>1, <1>3, <1>6 DEF PopLine
  <2> QED BY <1>3, <2>1, <2>2, HoldAlike DEF Alike
<1>7. CASE /\ ~ s.multi /\ ~ (text # << >> /\ Kind(text) \in {"last", "more"})
           /\ s.pending # << >>
  BY <1>1, <1>7, PopDataAlike DEF PopLine
<1>8. CASE /\ ~ s.multi /\ ~ (text # << >> /\ Kind(text) \in {"last", "more"})
           /\ s.pending = << >>
  BY <1>1, <1>8, CommandAlike DEF PopLine, Alike
<1> QED BY <1>4, <1>5, <1>6, <1>7, <1>8

LEMMA DispatchAlike ==
  ASSUME NEW s \in States, NEW b \in Lines, NEW line \in Lines
  PROVE  Alike(s, b, Dispatch(s, line), Dispatch(With(s, b), line))
<1>1. Append(s.replies, <<line>>) \in Seq(Seq(Lines))
  BY DEF States
<1> HIDE DEF Lines
<1>2. CASE Kind(line) \in {"last", "rlit2"}
  BY <1>1, <1>2 DEF Dispatch, States, With, Alike
<1>3. CASE Kind(line) \notin {"last", "rlit2"}
  BY <1>3, CommandAlike DEF Dispatch, Alike
<1> QED BY <1>2, <1>3

(* IMAP: a line, and a literal that is there.                              *)
LEMMA ImapLineAlike ==
  ASSUME NEW s \in States, s.lit = 0, NEW b \in Lines, NEW text \in Lines
  PROVE  /\ ImapLine(s, text) \in States /\ ImapLine(s, text).buffer = s.buffer
         /\ LitSound("imap", ImapLine(s, text))
         /\ ImapLine(With(s, b), text) = With(ImapLine(s, text), b)
<1> DEFINE end == text[Len(text)][1]
<1>1. <<text>> \in Seq(Lines) /\ <<text>> # << >>
  OBVIOUS
<1> HIDE DEF Lines
<1>2. CASE text = << >>
  BY <1>2 DEF ImapLine, LitSound
<1>3. CASE text # << >> /\ end \in {"lit2", "rlit2"}
  BY <1>1, <1>3 DEF ImapLine, LitSound, States, With
<1>4. CASE text # << >> /\ end = "lit0"
  BY <1>1, <1>4 DEF ImapLine, LitSound, States, With
<1>5. CASE text # << >> /\ end \notin {"lit0", "lit2", "rlit2"}
  <2>1. Alike(s, b, Dispatch(s, text), Dispatch(With(s, b), text))
    BY DispatchAlike
  <2>2. ImapLine(s, text) = Dispatch(s, text) /\ ImapLine(With(s, b), text) = Dispatch(With(s, b), text)
    BY <1>5 DEF ImapLine
  <2> QED BY <2>1, <2>2 DEF Alike, LitSound
<1> QED BY <1>2, <1>3, <1>4, <1>5

(* Where the first line ends does not change when more comes.              *)
Ends(buf) == {i \in 2 .. Len(buf) : buf[i - 1][1] = "cr" /\ buf[i][1] = "lf"}

LEMMA LineEndIs ==
  ASSUME NEW buf \in Lines
  PROVE  /\ LineEnd(buf) \in Nat /\ LineEnd(buf) <= Len(buf) /\ LineEnd(buf) # 1
         /\ LineEnd(buf) = 0 <=> Ends(buf) = {}
         /\ LineEnd(buf) # 0 => LineEnd(buf) \in Ends(buf)
         /\ \A j \in Ends(buf) : LineEnd(buf) <= j
<1>1. CASE Ends(buf) = {}
  BY <1>1 DEF LineEnd, Ends, Lines
<1>2. CASE Ends(buf) # {}
  <2>1. Ends(buf) \in SUBSET Nat
    BY DEF Ends, Lines
  <2>2. \E i \in Ends(buf) : \A j \in Ends(buf) : i <= j
    BY <1>2, <2>1, LeastNatural
  <2>3. LineEnd(buf) = CHOOSE i \in Ends(buf) : \A j \in Ends(buf) : i <= j
    BY <1>2 DEF LineEnd, Ends
  <2>4. LineEnd(buf) \in Ends(buf) /\ \A j \in Ends(buf) : LineEnd(buf) <= j
    BY <2>2, <2>3
  <2>5. LineEnd(buf) \in 2 .. Len(buf)
    BY <2>4 DEF Ends
  <2>6. Len(buf) \in Nat
    BY DEF Lines
  <2> QED BY <1>2, <2>4, <2>5, <2>6
<1> QED BY <1>1, <1>2

LEMMA EndsExtended ==
  ASSUME NEW buf \in Lines, NEW data \in Lines
  PROVE  /\ buf \o data \in Lines /\ Len(buf \o data) = Len(buf) + Len(data)
         /\ Ends(buf) \subseteq Ends(buf \o data)
         /\ \A i \in Ends(buf \o data) : i <= Len(buf) => i \in Ends(buf)
<1>1. /\ buf \o data \in Lines /\ Len(buf \o data) = Len(buf) + Len(data)
      /\ \A i \in 1 .. Len(buf) : (buf \o data)[i] = buf[i]
      /\ Len(buf) \in Nat /\ Len(data) \in Nat
  BY DEF Lines
<1> DEFINE both == buf \o data
<1> HIDE DEF both
<1>2. \A i \in 2 .. Len(buf) : i \in 1 .. Len(buf) /\ i - 1 \in 1 .. Len(buf) /\ i \in 2 .. Len(both)
  BY <1>1 DEF both
<1>3. \A i \in 1 .. Len(buf) : both[i] = buf[i]
  BY <1>1 DEF both
<1>4. Ends(buf) \subseteq Ends(both)
  BY <1>2, <1>3 DEF Ends
<1>5. ASSUME NEW i \in Ends(both), i <= Len(buf) PROVE i \in Ends(buf)
  <2>1. i \in 2 .. Len(buf) /\ both[i - 1][1] = "cr" /\ both[i][1] = "lf"
    BY <1>1, <1>5 DEF Ends, both
  <2> QED BY <1>2, <1>3, <2>1 DEF Ends
<1> QED BY <1>1, <1>4, <1>5 DEF both

LEMMA LineEndKept ==
  ASSUME NEW buf \in Lines, NEW data \in Lines, LineEnd(buf) # 0
  PROVE  LineEnd(buf \o data) = LineEnd(buf)
<1> DEFINE both == buf \o data
           e == LineEnd(buf)
           f == LineEnd(both)
<1>1. both \in Lines /\ Ends(buf) \subseteq Ends(both)
      /\ \A i \in Ends(both) : i <= Len(buf) => i \in Ends(buf)
  BY EndsExtended
<1>2. e \in Nat /\ e <= Len(buf) /\ e \in Ends(buf) /\ \A j \in Ends(buf) : e <= j
  BY LineEndIs
<1> HIDE DEF both, e
<1>3. f \in Nat /\ (f = 0 <=> Ends(both) = {}) /\ (f # 0 => f \in Ends(both))
      /\ \A j \in Ends(both) : f <= j
  BY <1>1, LineEndIs
<1> HIDE DEF f
<1>4. f <= e /\ f \in Ends(both)
  BY <1>1, <1>2, <1>3
<1>5. Len(buf) \in Nat
  BY DEF Lines
<1>6. e <= f
  BY <1>1, <1>2, <1>3, <1>4, <1>5
<1> QED BY <1>2, <1>3, <1>4, <1>6 DEF e, f, both

-----------------------------------------------------------------------------
(* A round takes a line or a literal off the buffer if it is complete, and *)
(* is the same round whatever comes after it.                              *)
Ready(p, s) == IF p = "imap" /\ s.lit > 0 THEN s.lit <= Len(s.buffer)
               ELSE LineEnd(s.buffer) # 0

AllParsers == {"ftp", "smtp", "pop3", "imap"}

LineStep(p, s, text) ==
  CASE p = "ftp"  -> Numbered(s, text, {"last", "odd"})
    [] p = "smtp" -> Numbered(s, text, {"last"})
    [] p = "pop3" -> PopLine(s, text)
    [] p = "imap" -> ImapLine(s, text)

LEMMA LineStepAlike ==
  ASSUME NEW p \in AllParsers, NEW s \in States, s.lit = 0, NEW b \in Lines, NEW text \in Lines
  PROVE  /\ Good(p, LineStep(p, s, text)) /\ LineStep(p, s, text).buffer = s.buffer
         /\ LineStep(p, With(s, b), text) = With(LineStep(p, s, text), b)
<1>1. CASE p = "ftp"
  <2>1. Alike(s, b, Numbered(s, text, {"last", "odd"}), Numbered(With(s, b), text, {"last", "odd"}))
    BY NumberedAlike
  <2> QED BY <1>1, <2>1 DEF LineStep, Good, LitSound, Alike
<1>2. CASE p = "smtp"
  <2>1. Alike(s, b, Numbered(s, text, {"last"}), Numbered(With(s, b), text, {"last"}))
    BY NumberedAlike
  <2> QED BY <1>2, <2>1 DEF LineStep, Good, LitSound, Alike
<1>3. CASE p = "pop3"
  BY <1>3, PopLineAlike DEF LineStep, Good, LitSound, Alike
<1>4. CASE p = "imap"
  BY <1>4, ImapLineAlike DEF LineStep, Good
<1> QED BY <1>1, <1>2, <1>3, <1>4 DEF AllParsers

LEMMA StrippedTyped ==
  ASSUME NEW line \in Lines
  PROVE  Stripped(line) \in Lines
<1> DEFINE kept == {i \in DOMAIN line : line[i][1] \notin {"cr", "lf"}}
           k == CHOOSE i \in kept : \A j \in kept : j <= i
<1>1. CASE kept = {}
  BY <1>1 DEF Stripped, Lines
<1>2. CASE kept # {}
  <2>1. Stripped(line) = SubSeq(line, 1, k)
    BY <1>2 DEF Stripped
  <2>2. k \in kept
    <3>1. kept \in SUBSET (1 .. Len(line)) /\ Len(line) \in Nat
      BY DEF Lines
    <3>2. \E i \in kept : \A j \in kept : j <= i
      <4> HIDE DEF kept
      <4> QED BY <1>2, <3>1, GreatestNatural
    <3> QED BY <3>2
  <2>3. k \in 1 .. Len(line)
    BY <2>2 DEF Lines
  <2> HIDE DEF k, kept
  <2> QED BY <2>1, <2>3 DEF Lines
<1> QED BY <1>1, <1>2

(* A buffer cut in two.                                                    *)
LEMMA Halves ==
  ASSUME NEW buf \in Lines, NEW k \in Nat, k <= Len(buf)
  PROVE  /\ SubSeq(buf, 1, k) \in Lines /\ SubSeq(buf, k + 1, Len(buf)) \in Lines
         /\ Len(SubSeq(buf, k + 1, Len(buf))) = Len(buf) - k
  BY DEF Lines

LEMMA Joined ==
  ASSUME NEW a \in Lines, NEW b \in Lines
  PROVE  a \o b \in Lines /\ Len(a \o b) = Len(a) + Len(b)
  BY DEF Lines

(* The round that takes a line.                                            *)
LEMMA RoundIsLine ==
  ASSUME NEW p \in AllParsers, NEW s \in States, ~ (p = "imap" /\ s.lit > 0),
         LineEnd(s.buffer) # 0
  PROVE  LET end  == LineEnd(s.buffer)
             text == Stripped(SubSeq(s.buffer, 1, end))
             rest == SubSeq(s.buffer, end + 1, Len(s.buffer))
         IN  /\ Round(p, s) = LineStep(p, With(s, rest), text)
             /\ text \in Lines /\ rest \in Lines
             /\ Len(rest) = Len(s.buffer) - end /\ end \in 2 .. Len(s.buffer)
<1> DEFINE buf == s.buffer
           end == LineEnd(buf)
           text == Stripped(SubSeq(buf, 1, end))
           rest == SubSeq(buf, end + 1, Len(buf))
<1>1. buf \in Lines
  BY DEF States
<1>2. end \in Nat /\ end <= Len(buf) /\ end # 1 /\ end # 0
  BY <1>1, LineEndIs
<1>3. Round(p, s) = LineStep(p, [s EXCEPT !.buffer = rest], text)
  BY DEF Round, LineStep
<1> HIDE DEF buf, end
<1>4. SubSeq(buf, 1, end) \in Lines /\ rest \in Lines /\ Len(rest) = Len(buf) - end
  BY <1>1, <1>2 DEF Lines
<1>5. text \in Lines
  BY <1>4, StrippedTyped
<1>6. end \in 2 .. Len(buf)
  BY <1>1, <1>2 DEF Lines
<1> QED BY <1>3, <1>4, <1>5, <1>6 DEF buf, end, With

LEMMA RoundIsLiteral ==
  ASSUME NEW s \in States, s.lit > 0, s.pending # << >>, s.lit <= Len(s.buffer)
  PROVE  LET text == s.pending[1] \o SubSeq(s.buffer, 1, s.lit)
             rest == SubSeq(s.buffer, s.lit + 1, Len(s.buffer))
             free == [s EXCEPT !.lit = 0, !.pending = << >>]
         IN  /\ Round("imap", s) = Dispatch(With(free, rest), text)
             /\ text \in Lines /\ rest \in Lines /\ free \in States
             /\ Len(rest) = Len(s.buffer) - s.lit
<1> DEFINE text == s.pending[1] \o SubSeq(s.buffer, 1, s.lit)
           rest == SubSeq(s.buffer, s.lit + 1, Len(s.buffer))
           free == [s EXCEPT !.lit = 0, !.pending = << >>]
<1>1. s.buffer \in Lines /\ s.lit \in Nat /\ s.pending \in Seq(Lines)
  BY DEF States
<1>2. s.pending[1] \in Lines
  <2> DEFINE q == s.pending
  <2>1. q \in Seq(Lines) /\ q # << >>
    BY <1>1
  <2> HIDE DEF q, Lines
  <2>2. q[1] \in Lines
    BY <2>1
  <2> QED BY <2>2 DEF q
<1>3. /\ SubSeq(s.buffer, 1, s.lit) \in Lines /\ rest \in Lines
      /\ Len(rest) = Len(s.buffer) - s.lit
  BY <1>1, Halves
<1>4. text \in Lines
  <2> HIDE DEF Lines
  <2> QED BY <1>2, <1>3, Joined
<1>5. free \in States
  <2>1. << >> \in Seq(Lines)
    OBVIOUS
  <2> HIDE DEF Lines
  <2> QED BY <2>1 DEF States
<1>6. With(free, rest) = [s EXCEPT !.buffer = rest, !.lit = 0, !.pending = << >>]
  <2>1. << >> \in Seq(Lines)
    OBVIOUS
  <2> HIDE DEF Lines, rest
  <2> QED BY <1>3, <2>1 DEF States, With
<1>7. Round("imap", s) = ImapLiteral(s)
  BY DEF Round
<1>8. ImapLiteral(s) = Dispatch([s EXCEPT !.buffer = rest, !.lit = 0, !.pending = << >>], text)
  <2>1. ~ (Len(s.buffer) < s.lit)
    BY <1>1 DEF Lines
  <2> QED BY <2>1 DEF ImapLiteral
<1> QED BY <1>3, <1>4, <1>5, <1>6, <1>7, <1>8

LEMMA GoodTyped ==
  ASSUME NEW p, NEW s, Good(p, s)
  PROVE  /\ s.buffer \in Lines /\ Len(s.buffer) \in Nat
         /\ s.lit \in Nat /\ s.pending \in Seq(Lines)
  BY DEF Good, States, Lines

LEMMA FedIs ==
  ASSUME NEW p, NEW s, Good(p, s), NEW data \in Lines
  PROVE  /\ Good(p, Fed(s, data)) /\ Fed(s, data).buffer = s.buffer \o data
         /\ s.buffer \in Lines /\ s.buffer \o data \in Lines
         /\ Len(s.buffer \o data) = Len(s.buffer) + Len(data)
         /\ Len(s.buffer) \in Nat /\ Len(data) \in Nat
         /\ Fed(s, data).lit = s.lit /\ Fed(s, data).pending = s.pending
<1>1. s.buffer \in Lines /\ s \in States
  BY DEF Good, States
<1>2. s.buffer \o data \in Lines /\ Len(s.buffer \o data) = Len(s.buffer) + Len(data)
  BY <1>1, Joined
<1>3. Len(s.buffer) \in Nat /\ Len(data) \in Nat
  BY <1>1 DEF Lines
<1> HIDE DEF Lines
<1> QED BY <1>1, <1>2, <1>3, WithIs DEF Good, LitSound, Fed

(* What is taken off the front is the same with data behind, and the rest  *)
(* is the rest with the data behind.                                       *)
LEMMA FrontKept ==
  ASSUME NEW buf \in Lines, NEW data \in Lines, NEW k \in Nat, k <= Len(buf)
  PROVE  /\ SubSeq(buf \o data, 1, k) = SubSeq(buf, 1, k)
         /\ SubSeq(buf \o data, k + 1, Len(buf \o data)) = SubSeq(buf, k + 1, Len(buf)) \o data
<1> DEFINE a == SubSeq(buf, 1, k)
           b == SubSeq(buf, k + 1, Len(buf))
           n == Len(buf)
           m == Len(data)
           both == buf \o data
           front == SubSeq(both, 1, k)
           tail == SubSeq(both, k + 1, Len(both))
           rest == b \o data
<1>1. /\ n \in Nat /\ m \in Nat /\ Len(both) = n + m /\ both \in Lines
      /\ \A i \in 1 .. n : both[i] = buf[i]
      /\ \A i \in 1 .. m : both[n + i] = data[i]
  BY DEF Lines
<1>2. /\ a \in Lines /\ Len(a) = k /\ \A i \in 1 .. k : a[i] = buf[i]
      /\ b \in Lines /\ Len(b) = n - k /\ \A i \in 1 .. n - k : b[i] = buf[k + i]
  BY <1>1 DEF Lines
<1>3. /\ front \in Lines /\ Len(front) = k /\ \A i \in 1 .. k : front[i] = both[i]
  <2> HIDE DEF both
  <2> QED BY <1>1 DEF Lines
<1>4. /\ tail \in Lines /\ Len(tail) = n + m - k
      /\ \A i \in 1 .. n + m - k : tail[i] = both[k + i]
  <2> HIDE DEF both
  <2> QED BY <1>1 DEF Lines
<1>5. /\ rest \in Lines /\ Len(rest) = n - k + m
      /\ \A i \in 1 .. n - k : rest[i] = b[i]
      /\ \A i \in 1 .. m : rest[n - k + i] = data[i]
  <2> DEFINE c == n - k
  <2>1. b \in Lines /\ Len(b) = c /\ c \in Nat /\ Len(data) = m /\ m \in Nat
    BY <1>1, <1>2
  <2> HIDE DEF b, c, m, n
  <2>2. /\ rest \in Lines /\ Len(rest) = c + m
        /\ \A i \in 1 .. c : rest[i] = b[i]
        /\ \A i \in 1 .. m : rest[c + i] = data[i]
    BY <2>1 DEF Lines
  <2> QED BY <2>2 DEF c
<1> HIDE DEF a, b, both, front, tail, rest, n
<1>6. front = a
  <2>1. \A i \in 1 .. k : front[i] = a[i]
    BY <1>1, <1>2, <1>3 DEF n
  <2> QED BY <1>2, <1>3, <2>1 DEF Lines
<1>7. tail = rest
  <2>1. ASSUME NEW i \in 1 .. n + m - k PROVE tail[i] = rest[i]
    <3>1. CASE i <= n - k
      <4>1. i \in 1 .. n - k /\ k + i \in 1 .. n
        BY <1>1, <3>1 DEF n
      <4> QED BY <4>1, <1>1, <1>2, <1>4, <1>5
    <3>2. CASE i > n - k
      <4> DEFINE j == i - (n - k)
      <4>1. j \in 1 .. m /\ i = n - k + j /\ k + i = n + j
        BY <1>1, <3>2 DEF n
      <4> HIDE DEF j, m
      <4>2. rest[i] = data[j] /\ both[k + i] = data[j]
        BY <4>1, <1>1, <1>5
      <4> QED BY <4>2, <1>4
    <3>3. i \in Int /\ n - k \in Int
      BY <1>1
    <3> QED BY <3>1, <3>2, <3>3
  <2>2. n - k + m = n + m - k
    BY <1>1
  <2> QED BY <1>4, <1>5, <2>1, <2>2 DEF Lines
<1> QED BY <1>6, <1>7 DEF a, b, both, front, tail, rest, n

(* A round that takes something: it keeps the parser sound, leaves less in *)
(* the buffer, and takes the same if more data is there.                   *)
LEMMA RoundTakes ==
  ASSUME NEW p \in AllParsers, NEW s, Good(p, s), Ready(p, s)
  PROVE  /\ Good(p, Round(p, s))
         /\ Len(Round(p, s).buffer) < Len(s.buffer)
         /\ \A data \in Lines : Ready(p, Fed(s, data))
                                /\ Round(p, Fed(s, data)) = Fed(Round(p, s), data)
<1>0. s \in States /\ s.buffer \in Lines /\ s.lit \in Nat
  BY DEF Good, States
<1> HIDE DEF Lines
<1>1. CASE ~ (p = "imap" /\ s.lit > 0)
  <2> DEFINE end  == LineEnd(s.buffer)
             text == Stripped(SubSeq(s.buffer, 1, end))
             rest == SubSeq(s.buffer, end + 1, Len(s.buffer))
             t == With(s, rest)
  <2>1. end # 0 /\ s.lit = 0
    BY <1>0, <1>1 DEF Ready, Good, LitSound
  <2>2. /\ Round(p, s) = LineStep(p, t, text)
        /\ text \in Lines /\ rest \in Lines
        /\ Len(rest) = Len(s.buffer) - end /\ end \in 2 .. Len(s.buffer)
    BY <1>0, <1>1, <2>1, RoundIsLine
  <2>3. t \in States /\ t.lit = 0 /\ t.buffer = rest
    <3> HIDE DEF rest
    <3> QED BY <1>0, <2>1, <2>2, WithIs
  <2> HIDE DEF t, text
  <2>4. Good(p, Round(p, s)) /\ Round(p, s).buffer = rest
    BY <1>0, <2>2, <2>3, LineStepAlike
  <2>5. Len(rest) < Len(s.buffer)
    <3>1. Len(s.buffer) \in Nat
      BY <1>0 DEF Lines
    <3> HIDE DEF rest, end
    <3> QED BY <2>2, <3>1
  <2>6. ASSUME NEW data \in Lines
        PROVE  Ready(p, Fed(s, data)) /\ Round(p, Fed(s, data)) = Fed(Round(p, s), data)
    <3> DEFINE u == Fed(s, data)
    <3>1. /\ Good(p, u) /\ u.buffer = s.buffer \o data /\ u.lit = s.lit
          /\ u \in States
      BY FedIs DEF Good
    <3>2. LineEnd(u.buffer) = end
      BY <1>0, <2>1, <3>1, LineEndKept
    <3>3. /\ SubSeq(u.buffer, 1, end) = SubSeq(s.buffer, 1, end)
          /\ SubSeq(u.buffer, end + 1, Len(u.buffer)) = rest \o data
      <4>1. end \in Nat /\ end <= Len(s.buffer)
        BY <1>0, LineEndIs
      <4> HIDE DEF end
      <4>2. /\ SubSeq(s.buffer \o data, 1, end) = SubSeq(s.buffer, 1, end)
            /\ SubSeq(s.buffer \o data, end + 1, Len(s.buffer \o data)) = rest \o data
        BY <4>1, <1>0, FrontKept
      <4> HIDE DEF u, rest
      <4> QED BY <4>2, <3>1
    <3> HIDE DEF u, end, rest
    <3>4. Ready(p, u)
      BY <1>1, <2>1, <3>1, <3>2 DEF Ready
    <3>5. Round(p, u) = LineStep(p, With(u, rest \o data), text)
      BY <1>1, <2>1, <3>1, <3>2, <3>3, RoundIsLine DEF text
    <3>6. rest \o data \in Lines
      BY <2>2, Joined
    <3>7. With(u, rest \o data) = With(t, rest \o data)
      <4>1. s.buffer \o data \in Lines
        BY <1>0, Joined
      <4> QED BY <1>0, <4>1, <3>6, <2>2, WithIs DEF u, t, Fed
    <3>8. LineStep(p, With(t, rest \o data), text) = With(LineStep(p, t, text), rest \o data)
      BY <2>2, <2>3, <3>6, LineStepAlike
    <3> QED BY <3>4, <3>5, <3>7, <3>8, <2>2, <2>4 DEF u, Fed
  <2> QED BY <2>4, <2>5, <2>6
<1>2. CASE p = "imap" /\ s.lit > 0
  <2> DEFINE k == s.lit
             text == s.pending[1] \o SubSeq(s.buffer, 1, k)
             rest == SubSeq(s.buffer, k + 1, Len(s.buffer))
             free == [s EXCEPT !.lit = 0, !.pending = << >>]
             t == With(free, rest)
  <2>1. k <= Len(s.buffer) /\ s.pending # << >>
    BY <1>2 DEF Ready, Good, LitSound
  <2>2. /\ Round(p, s) = Dispatch(t, text)
        /\ text \in Lines /\ rest \in Lines /\ free \in States
        /\ Len(rest) = Len(s.buffer) - k
    BY <1>0, <1>2, <2>1, RoundIsLiteral
  <2>3. t \in States /\ t.lit = 0 /\ t.buffer = rest
    <3>1. free.lit = 0
      BY <1>0 DEF States
    <3> HIDE DEF rest, free
    <3> QED BY <2>2, <3>1, WithIs
  <2>4. Good(p, Round(p, s)) /\ Round(p, s).buffer = rest
    <3> HIDE DEF t, text, rest
    <3>1. Alike(t, rest, Dispatch(t, text), Dispatch(With(t, rest), text))
      BY <2>2, <2>3, DispatchAlike
    <3> QED BY <2>2, <2>3, <3>1 DEF Alike, Good, LitSound
  <2>5. Len(rest) < Len(s.buffer)
    <3>1. Len(s.buffer) \in Nat
      BY <1>0 DEF Lines
    <3> HIDE DEF rest
    <3> QED BY <1>0, <1>2, <2>2, <3>1
  <2>6. ASSUME NEW data \in Lines
        PROVE  Ready(p, Fed(s, data)) /\ Round(p, Fed(s, data)) = Fed(Round(p, s), data)
    <3> DEFINE u == Fed(s, data)
               freeU == [u EXCEPT !.lit = 0, !.pending = << >>]
    <3>1. /\ Good(p, u) /\ u.buffer = s.buffer \o data /\ u.lit = k
          /\ u \in States /\ u.pending = s.pending
          /\ k <= Len(u.buffer)
      <4>1. /\ Good(p, u) /\ u.buffer = s.buffer \o data /\ u.lit = k
            /\ u \in States /\ u.pending = s.pending
            /\ Len(u.buffer) = Len(s.buffer) + Len(data)
            /\ Len(s.buffer) \in Nat /\ Len(data) \in Nat
        BY FedIs DEF Good
      <4> HIDE DEF u
      <4> QED BY <4>1, <1>0, <2>1
    <3>2. freeU = With(free, s.buffer \o data)
      <4>1. s.buffer \o data \in Lines /\ << >> \in Seq(Lines)
        BY <1>0, Joined
      <4> QED BY <4>1, <1>0 DEF u, Fed, With, States
    <3>3. /\ SubSeq(u.buffer, 1, k) = SubSeq(s.buffer, 1, k)
          /\ SubSeq(u.buffer, k + 1, Len(u.buffer)) = rest \o data
      <4>1. /\ SubSeq(s.buffer \o data, 1, k) = SubSeq(s.buffer, 1, k)
            /\ SubSeq(s.buffer \o data, k + 1, Len(s.buffer \o data)) = rest \o data
        BY <1>0, <2>1, FrontKept
      <4> HIDE DEF u, rest
      <4> QED BY <4>1, <3>1
    <3>4. Round(p, u) = Dispatch(With(freeU, rest \o data), text)
      <4> HIDE DEF u, rest
      <4> QED BY <1>2, <2>1, <3>1, <3>3, RoundIsLiteral
    <3>5. rest \o data \in Lines /\ s.buffer \o data \in Lines
      BY <1>0, <2>2, Joined
    <3> HIDE DEF u, rest, text, freeU, free
    <3>6. With(freeU, rest \o data) = With(t, rest \o data)
      BY <2>2, <3>2, <3>5, WithIs
    <3> HIDE DEF t
    <3>7. /\ Dispatch(With(t, rest \o data), text) = With(Dispatch(t, text), rest \o data)
      BY <2>2, <2>3, <3>5, DispatchAlike DEF Alike
    <3>8. Ready(p, u)
      BY <1>2, <3>1 DEF Ready
    <3> QED BY <3>4, <3>6, <3>7, <3>8, <2>2, <2>4 DEF u, Fed
  <2> QED BY <2>4, <2>5, <2>6
<1> QED BY <1>1, <1>2

LEMMA RoundIdle ==
  ASSUME NEW p \in AllParsers, NEW s, Good(p, s), ~ Ready(p, s)
  PROVE  Round(p, s) = s
<1>1. s.lit \in Nat /\ Len(s.buffer) \in Nat
  BY DEF Good, States, Lines
<1> QED BY <1>1 DEF Ready, Round, ImapLiteral

-----------------------------------------------------------------------------
(* The loop: f[i] is the parser after i rounds.                            *)
Runs(p, s, f, n) == f = [i \in 0 .. n |-> IF i = 0 THEN s ELSE Round(p, f[i - 1])]

LEMMA RunsExist ==
  ASSUME NEW p, NEW s, NEW n \in Nat
  PROVE  \E f : Runs(p, s, f, n)
<1> DEFINE T == {m \in Nat : ~ \E f : Runs(p, s, f, m)}
<1>1. T = {}
  <2> SUFFICES ASSUME T # {} PROVE FALSE
    OBVIOUS
  <2>1. PICK m \in T : \A j \in T : m <= j
    <3> HIDE DEF T
    <3>1. T \in SUBSET Nat
      BY DEF T
    <3> QED BY <3>1, LeastNatural
  <2>2. m # 0
    <3>1. Runs(p, s, [i \in 0 .. 0 |-> s], 0)
      BY DEF Runs
    <3> QED BY <3>1
  <2>3. m \in Nat /\ m - 1 \in Nat /\ m - 1 \notin T
    <3> HIDE DEF T
    <3>1. m \in Nat
      BY DEF T
    <3> QED BY <3>1, <2>1, <2>2
  <2>4. PICK f : Runs(p, s, f, m - 1)
    BY <2>3
  <2> DEFINE g == [i \in 0 .. m |-> IF i = 0 THEN s ELSE Round(p, f[i - 1])]
  <2>5. \A i \in 0 .. m - 1 : g[i] = f[i]
    <3> SUFFICES ASSUME NEW i \in 0 .. m - 1 PROVE g[i] = f[i]
      OBVIOUS
    <3>1. i \in 0 .. m
      BY <2>3
    <3>2. g[i] = IF i = 0 THEN s ELSE Round(p, f[i - 1])
      BY <3>1
    <3>3. f[i] = IF i = 0 THEN s ELSE Round(p, f[i - 1])
      BY <2>4 DEF Runs
    <3> QED BY <3>2, <3>3
  <2>6. Runs(p, s, g, m)
    <3>1. ASSUME NEW i \in 0 .. m, i # 0 PROVE g[i - 1] = f[i - 1]
      <4>1. i - 1 \in 0 .. m - 1
        BY <2>3, <3>1
      <4> QED BY <4>1, <2>5
    <3>2. g = [i \in 0 .. m |-> IF i = 0 THEN s ELSE Round(p, g[i - 1])]
      <4> DEFINE h == [i \in 0 .. m |-> IF i = 0 THEN s ELSE Round(p, g[i - 1])]
      <4>1. \A i \in 0 .. m : g[i] = h[i]
        BY <3>1
      <4> QED BY <4>1
    <3> QED BY <3>2 DEF Runs
  <2> QED BY <2>6, <2>1
<1> QED BY <1>1

LEMMA RunsValues ==
  ASSUME NEW p, NEW s, NEW n \in Nat, NEW f, Runs(p, s, f, n)
  PROVE  /\ f[0] = s
         /\ \A i \in 0 .. n : i + 1 <= n => f[i + 1] = Round(p, f[i])
<1>1. \A i \in 0 .. n : f[i] = IF i = 0 THEN s ELSE Round(p, f[i - 1])
  BY DEF Runs
<1>2. f[0] = s
  BY <1>1
<1>3. ASSUME NEW i \in 0 .. n, i + 1 <= n PROVE f[i + 1] = Round(p, f[i])
  <2>1. i + 1 \in 0 .. n /\ i + 1 # 0 /\ (i + 1) - 1 = i
    BY <1>3
  <2>2. f[i + 1] = Round(p, f[(i + 1) - 1])
    BY <1>1, <2>1
  <2> QED BY <2>1, <2>2
<1> QED BY <1>2, <1>3

LEMMA ProcessRuns ==
  ASSUME NEW p, NEW s, Len(s.buffer) \in Nat
  PROVE  \E f : Runs(p, s, f, Len(s.buffer)) /\ Process(p, s) = f[Len(s.buffer)]
<1> DEFINE n == Len(s.buffer)
           f == CHOOSE g : Runs(p, s, g, n)
<1>1. Runs(p, s, f, n)
  BY RunsExist
<1>2. Process(p, s) = f[n]
  BY DEF Process, Runs
<1> QED BY <1>1, <1>2

(* After i rounds either nothing is ready any more, or at least i symbols  *)
(* have been taken off the buffer.                                         *)
Worked(p, s, t, i) ==
  Good(p, t) /\ (Ready(p, t) => Len(t.buffer) + i <= Len(s.buffer))

LEMMA RunsWork ==
  ASSUME NEW p \in AllParsers, NEW s, Good(p, s), NEW n \in Nat, NEW f, Runs(p, s, f, n)
  PROVE  \A i \in 0 .. n : Worked(p, s, f[i], i)
<1> DEFINE T == {i \in 0 .. n : ~ Worked(p, s, f[i], i)}
<1>1. T = {}
  <2> SUFFICES ASSUME T # {} PROVE FALSE
    OBVIOUS
  <2>1. PICK m \in T : \A j \in T : m <= j
    <3>1. T \in SUBSET Nat
      OBVIOUS
    <3> HIDE DEF T
    <3> QED BY <3>1, LeastNatural
  <2>2. f[0] = s /\ \A i \in 0 .. n : i + 1 <= n => f[i + 1] = Round(p, f[i])
    BY RunsValues
  <2>3. Len(s.buffer) \in Nat
    BY DEF Good, States, Lines
  <2>4. m # 0
    <3>1. Worked(p, s, s, 0)
      BY <2>3 DEF Worked
    <3> QED BY <3>1, <2>2
  <2> DEFINE k == m - 1
             t == f[k]
  <2>5. k \in 0 .. n /\ k + 1 <= n /\ m = k + 1 /\ k \notin T
    <3>1. m \in 0 .. n
      OBVIOUS
    <3> HIDE DEF T
    <3> QED BY <3>1, <2>1, <2>4
  <2>6. Worked(p, s, t, k) /\ f[m] = Round(p, t)
    BY <2>2, <2>5
  <2> HIDE DEF k, t
  <2>7. Worked(p, s, Round(p, t), m)
    <3>1. CASE Ready(p, t)
      <4>1. Good(p, Round(p, t)) /\ Len(Round(p, t).buffer) < Len(t.buffer)
        BY <2>6, <3>1, RoundTakes DEF Worked
      <4>2. Len(t.buffer) \in Nat /\ Len(Round(p, t).buffer) \in Nat
        BY <2>6, <4>1, GoodTyped DEF Worked
      <4>3. Len(t.buffer) + k <= Len(s.buffer)
        BY <2>6, <3>1 DEF Worked
      <4>4. Len(Round(p, t).buffer) + m <= Len(s.buffer)
        <5> DEFINE x == Len(Round(p, t).buffer)
                   y == Len(t.buffer)
                   z == Len(s.buffer)
        <5>1. x \in Nat /\ y \in Nat /\ z \in Nat /\ x < y /\ y + k <= z
              /\ m = k + 1 /\ k \in Nat
          BY <4>1, <4>2, <4>3, <2>3, <2>5
        <5> HIDE DEF x, y, z
        <5>2. x + m <= z
          BY <5>1
        <5> QED BY <5>2 DEF x, z
      <4> QED BY <4>1, <4>4 DEF Worked
    <3>2. CASE ~ Ready(p, t)
      <4>1. Round(p, t) = t
        BY <2>6, <3>2, RoundIdle DEF Worked
      <4> QED BY <4>1, <3>2, <2>6 DEF Worked
    <3> QED BY <3>1, <3>2
  <2> QED BY <2>6, <2>7
<1> QED BY <1>1

(* The loop ends where no line and no literal is complete.                 *)
LEMMA ProcessDone ==
  ASSUME NEW p \in AllParsers, NEW s, Good(p, s)
  PROVE  Good(p, Process(p, s)) /\ ~ Ready(p, Process(p, s))
<1> DEFINE n == Len(s.buffer)
           t == Process(p, s)
<1>1. n \in Nat
  BY DEF Good, States, Lines
<1>2. PICK f : Runs(p, s, f, n) /\ t = f[n]
  BY <1>1, ProcessRuns
<1> HIDE DEF t
<1>3. Worked(p, s, t, n)
  BY <1>1, <1>2, RunsWork
<1>4. Good(p, t)
  BY <1>3 DEF Worked
<1>5. SUFFICES ASSUME Ready(p, t) PROVE FALSE
  BY <1>4 DEF t
<1>6. Len(t.buffer) + n <= n /\ Len(t.buffer) \in Nat /\ t.lit \in Nat /\ t.buffer \in Lines
  BY <1>3, <1>4, <1>5, GoodTyped DEF Worked
<1>7. Len(t.buffer) = 0
  <2> HIDE DEF n
  <2> QED BY <1>1, <1>6
<1>8. LineEnd(t.buffer) = 0
  BY <1>6, <1>7, LineEndIs
<1> QED BY <1>5, <1>6, <1>7, <1>8 DEF Ready

LEMMA ProcessIdle ==
  ASSUME NEW p \in AllParsers, NEW s, Good(p, s), ~ Ready(p, s)
  PROVE  Process(p, s) = s
<1> DEFINE n == Len(s.buffer)
<1>1. n \in Nat
  BY DEF Good, States, Lines
<1>2. PICK f : Runs(p, s, f, n) /\ Process(p, s) = f[n]
  BY <1>1, ProcessRuns
<1> DEFINE T == {i \in 0 .. n : f[i] # s}
<1> HIDE DEF n
<1>3. T = {}
  <2> SUFFICES ASSUME T # {} PROVE FALSE
    OBVIOUS
  <2>1. PICK m \in T : \A j \in T : m <= j
    <3>1. T \in SUBSET Nat
      BY <1>1
    <3> HIDE DEF T
    <3> QED BY <3>1, LeastNatural
  <2>2. f[0] = s /\ \A i \in 0 .. n : i + 1 <= n => f[i + 1] = Round(p, f[i])
    BY <1>1, <1>2, RunsValues
  <2>3. m \in 0 .. n /\ f[m] # s
    OBVIOUS
  <2>4. m - 1 \in 0 .. n /\ (m - 1) + 1 = m /\ m <= n /\ m - 1 \notin T
    <3> HIDE DEF T
    <3> QED BY <1>1, <2>1, <2>2, <2>3
  <2>5. f[m - 1] = s
    BY <2>4
  <2>6. f[m] = Round(p, f[m - 1])
    BY <2>2, <2>4
  <2> QED BY <2>3, <2>5, <2>6, RoundIdle
<1> QED BY <1>1, <1>2, <1>3

(* A loop can be begun after its first round.                              *)
LEMMA OneRound ==
  ASSUME NEW p \in AllParsers, NEW s, Good(p, s), Ready(p, s)
  PROVE  Process(p, s) = Process(p, Round(p, s))
<1> DEFINE r == Round(p, s)
           n == Len(s.buffer)
           m == Len(r.buffer)
<1>1. Good(p, r) /\ m < n /\ n \in Nat /\ m \in Nat
  BY RoundTakes, GoodTyped
<1>2. PICK f : Runs(p, s, f, n) /\ Process(p, s) = f[n]
  BY <1>1, ProcessRuns
<1>3. PICK g : Runs(p, r, g, m) /\ Process(p, r) = g[m]
  BY <1>1, ProcessRuns
<1> DEFINE end == g[m]
<1>4. Good(p, end) /\ ~ Ready(p, end)
  <2> HIDE DEF r
  <2>1. Good(p, Process(p, r)) /\ ~ Ready(p, Process(p, r))
    BY <1>1, ProcessDone
  <2> QED BY <1>3, <2>1
<1>5. f[0] = s /\ \A i \in 0 .. n : i + 1 <= n => f[i + 1] = Round(p, f[i])
  <2> HIDE DEF n
  <2> QED BY <1>1, <1>2, RunsValues
<1> HIDE DEF m
<1>6. g[0] = r /\ \A i \in 0 .. m : i + 1 <= m => g[i + 1] = Round(p, g[i])
  <2> HIDE DEF r
  <2> QED BY <1>1, <1>3, RunsValues
<1>7. Round(p, end) = end
  <2> HIDE DEF end
  <2> QED BY <1>4, RoundIdle
<1> HIDE DEF end, n
(* The rounds of one are those of the other, one later, and then nothing.  *)
<1> DEFINE Same(i) == f[i + 1] = IF i <= m THEN g[i] ELSE end
           T == {i \in 0 .. n - 1 : ~ Same(i)}
<1>8. T = {}
  <2> SUFFICES ASSUME T # {} PROVE FALSE
    OBVIOUS
  <2>1. PICK k \in T : \A j \in T : k <= j
    <3>1. T \in SUBSET Nat
      BY <1>1
    <3> HIDE DEF T
    <3> QED BY <3>1, LeastNatural
  <2>2. k \in 0 .. n - 1 /\ ~ Same(k)
    OBVIOUS
  <2>3. CASE k = 0
    <3>1. f[1] = Round(p, f[0])
      <4>1. 0 \in 0 .. n /\ 0 + 1 <= n
        BY <1>1
      <4>2. f[0 + 1] = Round(p, f[0])
        BY <4>1, <1>5
      <4> QED BY <4>2
    <3>2. 0 <= m
      BY <1>1
    <3> QED BY <2>2, <2>3, <3>1, <3>2, <1>5, <1>6
  <2>4. CASE k # 0
    <3> DEFINE i == k - 1
    <3>1. i \in 0 .. n - 1 /\ i + 1 = k /\ i \notin T
      <4> HIDE DEF T
      <4> QED BY <1>1, <2>1, <2>2, <2>4
    <3>2. f[k] = IF i <= m THEN g[i] ELSE end
      BY <3>1
    <3>3. f[k + 1] = Round(p, f[k])
      BY <1>1, <1>5, <2>2
    <3>4. CASE k <= m
      <4>1. i \in 0 .. m /\ i + 1 <= m /\ i <= m
        BY <1>1, <3>1, <3>4
      <4>2. g[i + 1] = Round(p, g[i])
        BY <4>1, <1>6
      <4> QED BY <2>2, <3>1, <3>2, <3>3, <3>4, <4>1, <4>2
    <3>5. CASE ~ (k <= m)
      <4>1. i = m \/ ~ (i <= m)
        BY <1>1, <2>2, <3>5
      <4>2. f[k] = end
        BY <3>2, <4>1 DEF end
      <4> QED BY <2>2, <3>3, <3>5, <4>2, <1>7
    <3> QED BY <3>4, <3>5
  <2> QED BY <2>3, <2>4
<1>9. f[n] = end
  <2> DEFINE k == n - 1
  <2>1. k \in 0 .. n - 1 /\ k + 1 = n /\ m <= k
    BY <1>1 DEF m, n
  <2>2. Same(k)
    <3>1. k \notin T
      BY <1>8
    <3> QED BY <2>1, <3>1
  <2>3. k = m \/ ~ (k <= m)
    BY <1>1, <2>1
  <2> QED BY <2>1, <2>2, <2>3 DEF end
<1> QED BY <1>2, <1>3, <1>9 DEF end, r

(* What is fed later can be fed at once: the loop over the one is the loop *)
(* over the other.                                                         *)
LEMMA ProcessExtends ==
  ASSUME NEW p \in AllParsers, NEW data \in Lines, NEW s, Good(p, s)
  PROVE  Process(p, Fed(s, data)) = Process(p, Fed(Process(p, s), data))
<1> DEFINE Same(t) == Process(p, Fed(t, data)) = Process(p, Fed(Process(p, t), data))
           T == {n \in Nat : \E t : Good(p, t) /\ Len(t.buffer) = n /\ ~ Same(t)}
<1>1. T = {}
  <2> SUFFICES ASSUME T # {} PROVE FALSE
    OBVIOUS
  <2>1. PICK n \in T : \A j \in T : n <= j
    <3>1. T \in SUBSET Nat
      OBVIOUS
    <3> HIDE DEF T
    <3> QED BY <3>1, LeastNatural
  <2>2. PICK t : Good(p, t) /\ Len(t.buffer) = n /\ ~ Same(t)
    OBVIOUS
  <2>3. Ready(p, t)
    BY <2>2, ProcessIdle
  <2> DEFINE r == Round(p, t)
  <2>4. Good(p, r) /\ Len(r.buffer) < n /\ Len(r.buffer) \in Nat
    BY <2>2, <2>3, RoundTakes, GoodTyped
  <2>5. Same(r)
    <3>1. Len(r.buffer) \notin T
      <4>1. n \in Nat
        OBVIOUS
      <4> HIDE DEF T, r
      <4> QED BY <4>1, <2>1, <2>4
    <3> HIDE DEF r
    <3> QED BY <3>1, <2>4
  <2>6. Process(p, t) = Process(p, r)
    BY <2>2, <2>3, OneRound
  <2>7. Process(p, Fed(t, data)) = Process(p, Fed(r, data))
    <3>1. /\ Good(p, Fed(t, data)) /\ Ready(p, Fed(t, data))
          /\ Round(p, Fed(t, data)) = Fed(r, data)
      BY <2>2, <2>3, FedIs, RoundTakes
    <3> QED BY <3>1, OneRound
  <2> QED BY <2>2, <2>5, <2>6, <2>7
<1>2. Len(s.buffer) \in Nat
  BY GoodTyped
<1> QED BY <1>1, <1>2

-----------------------------------------------------------------------------
(* The end of a feed, and a feed.                                          *)
LEMMA NewGood ==
  ASSUME NEW p
  PROVE  Good(p, New) /\ New.buffer = << >> /\ New.pending = << >>
<1>1. << >> \in Lines /\ << >> \in Seq(Lines) /\ << >> \in Seq(Seq(Lines))
  BY DEF Lines
<1> HIDE DEF Lines
<1> QED BY <1>1 DEF New, Good, States, LitSound

LEMMA AtEndGood ==
  ASSUME NEW p \in AllParsers, NEW s, Good(p, s)
  PROVE  /\ Good(p, AtEnd(p, s))
         /\ ~ (p = "pop3" /\ Flushes(s)) => AtEnd(p, s) = s
<1>1. CASE p = "pop3" /\ Flushes(s)
  <2>1. s \in States /\ << >> \in Lines
    BY DEF Good, Lines
  <2>2. Alike(s, << >>, FlushPending(s), FlushPending(With(s, << >>)))
    BY <2>1, FlushAlike
  <2>3. Good(p, FlushPending(s))
    BY <1>1, <2>2 DEF Alike, Good, LitSound
  <2> QED BY <1>1, <2>3 DEF AtEnd
<1>2. CASE ~ (p = "pop3" /\ Flushes(s))
  BY <1>2 DEF AtEnd
<1> QED BY <1>1, <1>2

LEMMA FeedIs ==
  ASSUME NEW p \in AllParsers, NEW s, Good(p, s), NEW data \in Lines
  PROVE  /\ Feed(p, s, data) = AtEnd(p, Process(p, Fed(s, data)))
         /\ Good(p, Feed(p, s, data))
<1>1. Good(p, Fed(s, data))
  BY FedIs
<1>2. Feed(p, s, data) = AtEnd(p, Process(p, Fed(s, data)))
  BY DEF Feed, Fed, With
<1> QED BY <1>1, <1>2, ProcessDone, AtEndGood

LEMMA FedTwice ==
  ASSUME NEW p, NEW s, Good(p, s), NEW a \in Lines, NEW b \in Lines
  PROVE  Fed(Fed(s, a), b) = Fed(s, a \o b)
<1> DEFINE buf == s.buffer
<1>1. buf \in Lines /\ buf \o a \in Lines /\ Fed(s, a).buffer = buf \o a /\ s \in States
  BY FedIs DEF Good
<1> HIDE DEF buf
<1>2. (buf \o a) \o b = buf \o (a \o b)
  BY <1>1, ConcatAssociative DEF Lines
<1>3. (buf \o a) \o b \in Lines
  BY <1>1, Joined
<1>4. With(Fed(s, a), (buf \o a) \o b) = With(s, (buf \o a) \o b)
  BY <1>1, <1>3, WithIs DEF Fed, buf
<1> QED BY <1>1, <1>2, <1>4 DEF Fed, buf

LEMMA FedNothing ==
  ASSUME NEW p, NEW s, Good(p, s)
  PROVE  Fed(s, << >>) = s
<1> DEFINE buf == s.buffer
<1>1. buf \in Lines
  BY GoodTyped
<1> HIDE DEF buf
<1>2. buf \o << >> = buf
  BY <1>1, ConcatEmptySeq DEF Lines
<1>3. With(s, buf) = s
  BY <1>1, WithIs DEF Good, buf
<1> QED BY <1>2, <1>3 DEF Fed, buf

LEMMA FedNew ==
  ASSUME NEW a \in Lines
  PROVE  [New EXCEPT !.buffer = a] = Fed(New, a)
<1>1. New.buffer = << >>
  BY DEF New
<1>2. << >> \o a = a
  BY ConcatEmptySeq DEF Lines
<1> QED BY <1>1, <1>2 DEF Fed, With

(* If the end of the first feed flushed nothing, a second feed leaves what *)
(* one feed of both would have left.                                       *)
LEMMA TwoFeedsAreOne ==
  ASSUME NEW p \in AllParsers, NEW a \in Lines, NEW b \in Lines,
         ~ (p = "pop3" /\ Flushes(Process(p, Fed(New, a))))
  PROVE  Feed(p, Feed(p, New, a), b) = Feed(p, New, a \o b)
<1> DEFINE s == Process(p, Fed(New, a))
<1>1. Good(p, Fed(New, a)) /\ Good(p, New) /\ a \o b \in Lines
  BY NewGood, FedIs, Joined
<1>2. Good(p, s)
  BY <1>1, ProcessDone
<1>3. Feed(p, New, a) = s
  <2>1. Feed(p, New, a) = AtEnd(p, s)
    BY <1>1, FeedIs
  <2> HIDE DEF s
  <2>2. ~ (p = "pop3" /\ Flushes(s))
    BY DEF s
  <2> QED BY <1>2, <2>1, <2>2, AtEndGood
<1>4. Process(p, Fed(s, b)) = Process(p, Fed(Fed(New, a), b))
  BY <1>1, ProcessExtends
<1>5. Fed(Fed(New, a), b) = Fed(New, a \o b)
  BY <1>1, FedTwice
<1> HIDE DEF s
<1>6. /\ Feed(p, s, b) = AtEnd(p, Process(p, Fed(s, b)))
      /\ Feed(p, New, a \o b) = AtEnd(p, Process(p, Fed(New, a \o b)))
  BY <1>1, <1>2, FeedIs
<1> QED BY <1>3, <1>4, <1>5, <1>6

LEMMA NothingFed ==
  ASSUME NEW p \in AllParsers
  PROVE  Fed(New, << >>) = New /\ Process(p, New) = New /\ Feed(p, New, << >>) = New
<1>1. Good(p, New) /\ New.buffer = << >> /\ New.pending = << >> /\ << >> \in Lines
  BY NewGood DEF Lines
<1>2. Fed(New, << >>) = New
  BY <1>1, FedNothing
<1>3. ~ Ready(p, New)
  <2>1. New.lit = 0
    BY DEF New
  <2>2. LineEnd(<< >>) = 0
    <3>1. Len(<< >>) = 0
      OBVIOUS
    <3> QED BY <1>1, <3>1, LineEndIs
  <2> QED BY <1>1, <2>1, <2>2 DEF Ready
<1>4. Process(p, New) = New
  BY <1>1, <1>3, ProcessIdle
<1>5. Feed(p, New, << >>) = AtEnd(p, New)
  BY <1>1, <1>2, <1>4, FeedIs
<1>6. ~ Flushes(New)
  BY <1>1 DEF Flushes
<1> QED BY <1>1, <1>2, <1>4, <1>5, <1>6, AtEndGood

-----------------------------------------------------------------------------
(* What every feed finds: a sound parser and two stretches of the stream.  *)
Typed ==
  /\ parser \in AllParsers
  /\ Good(parser, st)
  /\ segment \in Lines /\ got \in Lines

LEMMA TypedStep ==
  ASSUME Typed, [Next]_vars
  PROVE  Typed'
<1>1. CASE Deliver
  <2>1. Good(parser, Feed(parser, st, segment))
    BY FeedIs DEF Typed
  <2>2. got \o segment \in Lines /\ << >> \in Lines
    BY Joined DEF Typed, Lines
  <2> QED BY <1>1, <2>1, <2>2 DEF Typed, Deliver
<1>2. ASSUME NEW k \in Kinds[parser] \cup {"cr", "lf"}, Arrive(k)
      PROVE  Typed'
  <2> DEFINE n == Len(got \o segment) + 1
  <2>1. k \in AllKinds
    <3>1. Kinds[parser] \subseteq AllKinds
      BY DEF Kinds, AllKinds, AllParsers, Typed
    <3> QED BY <3>1 DEF AllKinds
  <2>2. got \o segment \in Lines
    BY Joined DEF Typed
  <2>3. n \in Nat
    <3> DEFINE both == got \o segment
    <3> HIDE DEF both
    <3>1. Len(both) \in Nat
      BY <2>2 DEF Lines, both
    <3> QED BY <3>1 DEF both
  <2> HIDE DEF n
  <2>4. Append(segment, <<k, n>>) \in Lines
    BY <2>1, <2>3 DEF Typed, Lines, Symbols
  <2>5. segment' = Append(segment, <<k, n>>)
    BY <1>2 DEF Arrive, n
  <2> QED BY <1>2, <2>4, <2>5 DEF Typed, Arrive
<1>3. CASE UNCHANGED vars
  BY <1>3 DEF Typed, vars
<1> QED BY <1>1, <1>2, <1>3 DEF Next

LEMMA TypedInit == Init => Typed
<1> SUFFICES ASSUME Init PROVE Typed
  OBVIOUS
<1>1. << >> \in Lines
  BY DEF Lines
<1>2. parser \in AllParsers
  BY LinesAssumption DEF Init, AllParsers
<1> QED BY <1>1, <1>2, NewGood DEF Init, Typed

(* How a stream is cut makes no difference, as long as no feed of a pop3   *)
(* stream but the last ended with the reply that waits for what comes next *)
(* being taken for complete: feeding the parsers of ftp.py, smtp.py,       *)
(* pop3.py and imap.py the segments leaves what feeding them everything at *)
(* once leaves.                                                            *)
THEOREM CutsMakeNoDifference == Spec => []CutFree
<1> DEFINE Inv == Typed /\ flushed \in BOOLEAN /\ CutFree
<1>1. Init => Inv
  <2> SUFFICES ASSUME Init PROVE Inv
    OBVIOUS
  <2>1. Typed
    BY TypedInit
  <2>2. st = New /\ got = << >> /\ flushed = FALSE
    BY DEF Init
  <2>3. CutFree
    BY <2>1, <2>2, NothingFed DEF CutFree, Whole, Typed
  <2> QED BY <2>1, <2>2, <2>3
<1>2. Inv /\ [Next]_vars => Inv'
  <2> SUFFICES ASSUME Inv, [Next]_vars PROVE Inv'
    OBVIOUS
  <2>1. Typed'
    BY TypedStep
  <2>2. flushed' \in BOOLEAN
    BY DEF Next, Deliver, Arrive, vars
  <2>3. CutFree'
    <3>1. CASE Deliver
      <4> SUFFICES ASSUME ~ flushed' PROVE st' = Feed(parser, New, got \o segment)
        BY <3>1 DEF CutFree, Whole, Deliver
      <4>1. /\ ~ flushed
            /\ ~ (parser = "pop3" /\ got # << >> /\ Flushes(Process(parser, Fed(New, got))))
        <5>1. [New EXCEPT !.buffer = got] = Fed(New, got)
          BY FedNew DEF Typed
        <5>2. flushed' = (flushed \/ (parser = "pop3" /\ got # << >>
                                     /\ Flushes(Process(parser, Fed(New, got)))))
          BY <3>1, <5>1 DEF Deliver
        <5> QED BY <5>2, Zenon
      <4>2. st = Feed(parser, New, got)
        BY <4>1 DEF CutFree, Whole
      <4>3. ~ (parser = "pop3" /\ Flushes(Process(parser, Fed(New, got))))
        <5>1. CASE got = << >>
          BY <5>1, NothingFed, NewGood DEF Flushes, Typed
        <5>2. CASE got # << >>
          BY <5>2, <4>1
        <5> QED BY <5>1, <5>2
      <4>4. st' = Feed(parser, st, segment)
        BY <3>1 DEF Deliver
      <4>5. parser \in AllParsers /\ got \in Lines /\ segment \in Lines
        BY DEF Typed
      <4> QED BY <4>2, <4>3, <4>4, <4>5, TwoFeedsAreOne
    <3>2. CASE \E k \in Kinds[parser] \cup {"cr", "lf"} : Arrive(k)
      BY <3>2 DEF Arrive, CutFree, Whole
    <3>3. CASE UNCHANGED vars
      BY <3>3 DEF vars, CutFree, Whole
    <3> QED BY <3>1, <3>2, <3>3 DEF Next
  <2> QED BY <2>1, <2>2, <2>3
<1>3. Inv => CutFree
  OBVIOUS
<1> HIDE DEF Inv
<1> QED BY <1>1, <1>2, <1>3, PTL DEF Spec

-----------------------------------------------------------------------------
(* Framing.  What ends a reply of a protocol, and a reply that ends where  *)
(* it should.                                                              *)
ReplyEnds(p, r) ==
  CASE p = "ftp"  -> {"last", "odd"}
    [] p = "smtp" -> {"last"}
    [] p = "pop3" -> IF Len(r) = 1 THEN {"last", "more"} ELSE {"dot"}
    [] p = "imap" -> {"last", "rlit2"}
IsKind(line, kinds) == line # << >> /\ Kind(line) \in kinds
FramedReply(p, r) == \A j \in DOMAIN r : IsKind(r[j], ReplyEnds(p, r)) <=> j = Len(r)
AllFramed(p, replies) == \A i \in DOMAIN replies : FramedReply(p, replies[i])

(* The lines of the reply begun: none of them ends it.                     *)
NoneIs(lines, kinds) == \A j \in DOMAIN lines : ~ IsKind(lines[j], kinds)
Begun(p, s) ==
  /\ p = "ftp"  => NoneIs(s.pending, {"last", "odd"})
  /\ p = "smtp" => NoneIs(s.pending, {"last"})
  /\ p = "pop3" => IF s.multi THEN s.pending # << >> /\ NoneIs(s.pending, {"dot"})
                   ELSE s.pending = << >> \/ (Len(s.pending) = 1 /\ IsKind(s.pending[1], {"more"}))
  /\ p = "imap" => \A j \in DOMAIN s.pending : s.pending[j] # << >>
Framing(p, s) == AllFramed(p, s.replies) /\ Begun(p, s)

LEMMA AppendFramed ==
  ASSUME NEW p, NEW replies \in Seq(Seq(Lines)), NEW r \in Seq(Lines),
         AllFramed(p, replies), FramedReply(p, r)
  PROVE  AllFramed(p, Append(replies, r))
<1> DEFINE more == Append(replies, r)
<1> HIDE DEF Lines
<1>1. /\ Len(replies) \in Nat /\ DOMAIN more = 1 .. Len(replies) + 1
      /\ DOMAIN replies = 1 .. Len(replies)
      /\ \A i \in 1 .. Len(replies) : more[i] = replies[i]
      /\ more[Len(replies) + 1] = r
  OBVIOUS
<1> HIDE DEF more
<1>2. ASSUME NEW i \in DOMAIN more PROVE FramedReply(p, more[i])
  <2>1. CASE i = Len(replies) + 1
    BY <2>1, <1>1
  <2>2. CASE i # Len(replies) + 1
    <3>1. i \in DOMAIN replies /\ more[i] = replies[i]
      BY <2>2, <1>1
    <3> QED BY <3>1 DEF AllFramed
  <2> QED BY <2>1, <2>2
<1> QED BY <1>2 DEF AllFramed, more

(* A line that ends it, behind lines that do not.                          *)
LEMMA AppendedIs ==
  ASSUME NEW lines \in Seq(Lines), NEW line \in Lines
  PROVE  /\ Append(lines, line) \in Seq(Lines)
         /\ Len(Append(lines, line)) = Len(lines) + 1 /\ Len(lines) \in Nat
         /\ DOMAIN Append(lines, line) = 1 .. Len(lines) + 1
         /\ DOMAIN lines = 1 .. Len(lines)
         /\ \A i \in 1 .. Len(lines) : Append(lines, line)[i] = lines[i]
         /\ Append(lines, line)[Len(lines) + 1] = line
<1> HIDE DEF Lines
<1> QED OBVIOUS

LEMMA ClosedIsFramed ==
  ASSUME NEW p, NEW lines \in Seq(Lines), NEW line \in Lines, NEW kinds,
         ReplyEnds(p, Append(lines, line)) = kinds, NoneIs(lines, kinds), IsKind(line, kinds)
  PROVE  FramedReply(p, Append(lines, line))
<1> DEFINE r == Append(lines, line)
           n == Len(lines)
<1>1. /\ Len(r) = n + 1 /\ n \in Nat /\ DOMAIN r = 1 .. n + 1 /\ DOMAIN lines = 1 .. n
      /\ \A i \in 1 .. n : r[i] = lines[i]
      /\ r[n + 1] = line
  BY AppendedIs
<1>2. ReplyEnds(p, r) = kinds
  OBVIOUS
<1> HIDE DEF r, n
<1>3. ASSUME NEW j \in DOMAIN r PROVE IsKind(r[j], ReplyEnds(p, r)) <=> j = Len(r)
  <2>1. CASE j = n + 1
    BY <2>1, <1>1, <1>2
  <2>2. CASE j # n + 1
    <3>1. j \in DOMAIN lines /\ r[j] = lines[j] /\ j # Len(r)
      BY <2>2, <1>1
    <3>2. ~ IsKind(r[j], kinds)
      BY <3>1 DEF NoneIs
    <3> QED BY <3>1, <3>2, <1>2
  <2> QED BY <2>1, <2>2
<1> QED BY <1>3 DEF FramedReply, r

LEMMA HeldIsNone ==
  ASSUME NEW lines \in Seq(Lines), NEW line \in Lines, NEW kinds,
         NoneIs(lines, kinds), ~ IsKind(line, kinds)
  PROVE  NoneIs(Append(lines, line), kinds) /\ Append(lines, line) # << >>
<1> DEFINE r == Append(lines, line)
           n == Len(lines)
<1>1. /\ Len(r) = n + 1 /\ n \in Nat /\ DOMAIN r = 1 .. n + 1 /\ DOMAIN lines = 1 .. n
      /\ \A i \in 1 .. n : r[i] = lines[i]
      /\ r[n + 1] = line /\ r \in Seq(Lines)
  BY AppendedIs
<1> HIDE DEF r, n
<1>2. ASSUME NEW j \in DOMAIN r PROVE ~ IsKind(r[j], kinds)
  <2>1. CASE j = n + 1
    BY <2>1, <1>1
  <2>2. CASE j # n + 1
    <3>1. j \in DOMAIN lines /\ r[j] = lines[j]
      BY <2>2, <1>1
    <3> QED BY <3>1 DEF NoneIs
  <2> QED BY <2>1, <2>2
<1>3. r # << >>
  BY <1>1
<1> QED BY <1>2, <1>3 DEF NoneIs, r

LEMMA OneIsFramed ==
  ASSUME NEW p, NEW r \in Seq(Lines), Len(r) = 1, IsKind(r[1], ReplyEnds(p, r))
  PROVE  FramedReply(p, r)
<1>1. \A j \in DOMAIN r : j = 1
  <2> HIDE DEF Lines
  <2> QED OBVIOUS
<1> QED BY <1>1 DEF FramedReply

(* What the handlers leave.                                                *)
LEMMA PartsTyped ==
  ASSUME NEW s \in States
  PROVE  /\ s.buffer \in Lines /\ s.multi \in BOOLEAN
         /\ s.replies \in Seq(Seq(Lines)) /\ s.pending \in Seq(Lines)
<1> HIDE DEF Lines
<1> QED BY DEF States

LEMMA CommandLeaves ==
  ASSUME NEW s \in States, NEW line \in Lines
  PROVE  /\ Command(s, line).replies = s.replies /\ Command(s, line).pending = s.pending
         /\ Command(s, line).multi = s.multi /\ Command(s, line).buffer = s.buffer
<1> HIDE DEF Lines
<1> QED BY DEF States, Command

LEMMA ReplyLeaves ==
  ASSUME NEW s \in States, NEW lines \in Seq(Lines)
  PROVE  /\ Reply(s, lines).replies = Append(s.replies, lines)
         /\ Reply(s, lines).pending = << >>
         /\ Reply(s, lines).multi = FALSE /\ Reply(s, lines).buffer = s.buffer
<1> HIDE DEF Lines
<1> QED BY DEF States, Reply

LEMMA HoldLeaves ==
  ASSUME NEW s \in States, NEW line \in Lines
  PROVE  /\ Hold(s, line) \in States
         /\ Hold(s, line).replies = s.replies
         /\ Hold(s, line).pending = Append(s.pending, line)
         /\ Hold(s, line).multi = s.multi /\ Hold(s, line).buffer = s.buffer
         /\ Append(s.pending, line) \in Seq(Lines)
<1>1. Append(s.pending, line) \in Seq(Lines)
  BY DEF States
<1> HIDE DEF Lines
<1> QED BY <1>1 DEF States, Hold

(* ftp and smtp: the line that ends a reply closes it, any other is held.  *)
LEMMA NumberedFrames ==
  ASSUME NEW p \in {"ftp", "smtp"}, NEW s \in States, NEW text \in Lines, Framing(p, s)
  PROVE  Framing(p, Numbered(s, text, IF p = "ftp" THEN {"last", "odd"} ELSE {"last"}))
<1> DEFINE Final == IF p = "ftp" THEN {"last", "odd"} ELSE {"last"}
           q == s.pending
           t == Numbered(s, text, Final)
<1>1. AllFramed(p, s.replies) /\ NoneIs(q, Final) /\ \A r : ReplyEnds(p, r) = Final
  BY DEF Framing, Begun, ReplyEnds
<1>2. q \in Seq(Lines) /\ s.replies \in Seq(Seq(Lines)) /\ Append(q, text) \in Seq(Lines)
  BY PartsTyped, HoldLeaves
<1>3. SUFFICES AllFramed(p, t.replies) /\ NoneIs(t.pending, Final)
  BY DEF Framing, Begun
<1> HIDE DEF Lines, Final, q
<1>4. CASE text = << >>
  BY <1>1, <1>4 DEF Numbered, q
<1>5. CASE text # << >> /\ Kind(text) \notin {"more", "last", "odd"}
  <2>1. t = Command(s, text)
    BY <1>5 DEF Numbered
  <2> QED BY <2>1, <1>1, <1>2, CommandLeaves DEF q
<1>6. CASE text # << >> /\ Kind(text) \in {"more", "last", "odd"} /\ Kind(text) \in Final
  <2>1. t = Reply(s, Append(q, text))
    BY <1>6 DEF Numbered, q
  <2>2. t.replies = Append(s.replies, Append(q, text)) /\ t.pending = << >>
    <3> HIDE DEF t
    <3> QED BY <2>1, <1>2, ReplyLeaves
  <2>3. FramedReply(p, Append(q, text))
    BY <1>1, <1>2, <1>6, ClosedIsFramed DEF IsKind
  <2>4. NoneIs(<< >>, Final)
    BY DEF NoneIs
  <2> HIDE DEF t
  <2>5. AllFramed(p, t.replies)
    BY <1>1, <1>2, <2>2, <2>3, AppendFramed
  <2> QED BY <2>2, <2>4, <2>5
<1>7. CASE text # << >> /\ Kind(text) \in {"more", "last", "odd"} /\ Kind(text) \notin Final
  <2>1. t = Hold(s, text)
    BY <1>7 DEF Numbered
  <2>2. t.replies = s.replies /\ t.pending = Append(q, text)
    BY <2>1, HoldLeaves DEF q
  <2>3. NoneIs(Append(q, text), Final)
    BY <1>1, <1>2, <1>7, HeldIsNone DEF IsKind
  <2> QED BY <1>1, <2>2, <2>3
<1> QED BY <1>4, <1>5, <1>6, <1>7

(* pop3: a line with a dot only closes what more than one line make.       *)
LEMMA PopDataFrames ==
  ASSUME NEW s \in States, NEW text \in Lines, AllFramed("pop3", s.replies),
         s.pending # << >>, NoneIs(s.pending, {"dot"})
  PROVE  Framing("pop3", PopData(s, text))
<1> DEFINE q == s.pending
           t == PopData(s, text)
           r == Append(q, text)
<1>1. q \in Seq(Lines) /\ s.replies \in Seq(Seq(Lines)) /\ r \in Seq(Lines)
  BY PartsTyped, HoldLeaves
<1>2. Len(r) = Len(q) + 1 /\ Len(q) \in Nat \ {0}
  <2> HIDE DEF Lines, q
  <2>1. q # << >>
    BY DEF q
  <2> QED BY <1>1, <2>1, AppendedIs
<1>3. ReplyEnds("pop3", r) = {"dot"}
  <2>1. Len(r) # 1
    <3> HIDE DEF r, q
    <3> QED BY <1>2
  <2> QED BY <2>1 DEF ReplyEnds
<1>4. NoneIs(q, {"dot"})
  OBVIOUS
<1> HIDE DEF Lines, q
<1>5. CASE IsKind(text, {"dot"})
  <2>1. t = Reply(s, r)
    BY <1>5 DEF PopData, IsKind, q
  <2> HIDE DEF t
  <2>2. FramedReply("pop3", r)
    BY <1>1, <1>3, <1>4, <1>5, ClosedIsFramed
  <2> HIDE DEF r
  <2>3. t.replies = Append(s.replies, r) /\ t.pending = << >> /\ t.multi = FALSE
    BY <2>1, <1>1, ReplyLeaves
  <2>4. AllFramed("pop3", t.replies)
    BY <2>2, <2>3, <1>1, AppendFramed
  <2> QED BY <2>3, <2>4 DEF Framing, Begun, t
<1>6. CASE ~ IsKind(text, {"dot"})
  <2> DEFINE h == Hold(s, text)
  <2>1. t = [h EXCEPT !.multi = TRUE]
    BY <1>6 DEF PopData, IsKind
  <2>2. h \in States /\ h.replies = s.replies /\ h.pending = r
    BY HoldLeaves DEF q
  <2> HIDE DEF h, t
  <2>3. t.replies = s.replies /\ t.pending = r /\ t.multi = TRUE
    BY <2>1, <2>2 DEF States
  <2>4. NoneIs(r, {"dot"}) /\ r # << >>
    BY <1>1, <1>4, <1>6, HeldIsNone
  <2> QED BY <2>3, <2>4 DEF Framing, Begun, t
<1> QED BY <1>5, <1>6

LEMMA FlushFrames ==
  ASSUME NEW s \in States, Framing("pop3", s), ~ s.multi
  PROVE  LET t == FlushPending(s)
         IN  /\ t \in States /\ AllFramed("pop3", t.replies)
             /\ t.pending = << >> /\ t.multi = FALSE
<1> DEFINE q == s.pending
           t == FlushPending(s)
<1>1. s.buffer \in Lines /\ s.replies \in Seq(Seq(Lines)) /\ q \in Seq(Lines) /\ s.multi = FALSE
  BY DEF States
<1>2. t \in States
  BY <1>1, FlushAlike DEF Alike
<1>3. CASE q = << >>
  BY <1>1, <1>2, <1>3 DEF FlushPending, Framing
<1>4. CASE q # << >>
  <2>1. t = Reply(s, q)
    BY <1>4 DEF FlushPending
  <2> HIDE DEF t
  <2>2. AllFramed("pop3", s.replies) /\ Len(q) = 1 /\ IsKind(q[1], {"more"})
    BY <1>1, <1>4 DEF Framing, Begun
  <2> HIDE DEF q, Lines
  <2>3. IsKind(q[1], ReplyEnds("pop3", q))
    BY <2>2 DEF IsKind, ReplyEnds
  <2>4. FramedReply("pop3", q)
    BY <1>1, <2>2, <2>3, OneIsFramed
  <2>5. t.replies = Append(s.replies, q) /\ t.pending = << >> /\ t.multi = FALSE
    BY <1>1, <2>1, ReplyLeaves
  <2> QED BY <1>1, <1>2, <2>2, <2>4, <2>5, AppendFramed DEF t
<1> QED BY <1>3, <1>4

LEMMA PopLineFrames ==
  ASSUME NEW s \in States, NEW text \in Lines, Framing("pop3", s)
  PROVE  Framing("pop3", PopLine(s, text))
<1> DEFINE t == PopLine(s, text)
           f == FlushPending(s)
           one == <<text>>
<1>1. s.buffer \in Lines /\ s.replies \in Seq(Seq(Lines)) /\ s.pending \in Seq(Lines)
      /\ s.multi \in BOOLEAN /\ one \in Seq(Lines) /\ Len(one) = 1 /\ one[1] = text
  BY DEF States
<1>2. AllFramed("pop3", s.replies)
  BY DEF Framing
<1> HIDE DEF Lines
<1>3. CASE s.multi
  <2>1. t = PopData(s, text)
    BY <1>3 DEF PopLine
  <2>2. s.pending # << >> /\ NoneIs(s.pending, {"dot"})
    BY <1>3 DEF Framing, Begun
  <2> QED BY <2>1, <2>2, <1>2, PopDataFrames
<1>4. CASE ~ s.multi /\ text # << >> /\ Kind(text) \in {"last", "more"}
  <2>1. /\ f \in States /\ AllFramed("pop3", f.replies)
        /\ f.pending = << >> /\ f.multi = FALSE
    BY <1>4, FlushFrames
  <2> HIDE DEF f
  <2>2. f.replies \in Seq(Seq(Lines)) /\ f.buffer \in Lines
    BY <2>1 DEF States
  <2>3. CASE Kind(text) = "last"
    <3>1. t = Reply(f, one)
      BY <1>4, <2>3 DEF PopLine, f
    <3> HIDE DEF t
    <3>2. IsKind(one[1], ReplyEnds("pop3", one))
      BY <1>1, <1>4, <2>3 DEF IsKind, ReplyEnds
    <3> HIDE DEF one
    <3>3. FramedReply("pop3", one)
      BY <1>1, <3>2, OneIsFramed
    <3>4. t.replies = Append(f.replies, one) /\ t.pending = << >> /\ t.multi = FALSE
      BY <2>1, <3>1, <1>1, ReplyLeaves
    <3>5. AllFramed("pop3", t.replies)
      BY <2>1, <2>2, <3>3, <3>4, <1>1, AppendFramed
    <3> QED BY <3>4, <3>5 DEF Framing, Begun, t
  <2>4. CASE Kind(text) = "more"
    <3>1. t = Hold(f, text)
      BY <1>4, <2>4 DEF PopLine, f
    <3> HIDE DEF t
    <3>2. t.replies = f.replies /\ t.pending = Append(f.pending, text) /\ t.multi = FALSE
      BY <2>1, <3>1, HoldLeaves
    <3>3. Append(<< >>, text) = one
      OBVIOUS
    <3>4. t.pending = one
      BY <2>1, <3>2, <3>3
    <3>5. Len(t.pending) = 1 /\ IsKind(t.pending[1], {"more"})
      BY <3>4, <1>1, <1>4, <2>4 DEF IsKind
    <3> QED BY <2>1, <3>2, <3>5 DEF Framing, Begun, t
  <2> QED BY <1>4, <2>3, <2>4
<1>5. CASE /\ ~ s.multi /\ ~ (text # << >> /\ Kind(text) \in {"last", "more"})
           /\ s.pending # << >>
  <2>1. t = PopData(s, text)
    BY <1>5 DEF PopLine
  <2>2. Len(s.pending) = 1 /\ IsKind(s.pending[1], {"more"})
    BY <1>5 DEF Framing, Begun
  <2>3. NoneIs(s.pending, {"dot"})
    <3>1. \A j \in DOMAIN s.pending : j = 1
      <4> DEFINE q == s.pending
      <4>1. q \in Seq(Lines) /\ Len(q) = 1
        BY <1>1, <2>2
      <4> HIDE DEF q
      <4>2. \A j \in DOMAIN q : j = 1
        BY <4>1
      <4> QED BY <4>2 DEF q
    <3> QED BY <2>2, <3>1 DEF NoneIs, IsKind
  <2> QED BY <2>1, <2>3, <1>2, <1>5, PopDataFrames
<1>6. CASE /\ ~ s.multi /\ ~ (text # << >> /\ Kind(text) \in {"last", "more"})
           /\ s.pending = << >>
  <2>1. t = Command(s, text)
    BY <1>6 DEF PopLine
  <2>2. t.replies = s.replies /\ t.pending = << >> /\ t.multi = s.multi
    BY <2>1, <1>6, CommandLeaves
  <2> QED BY <1>2, <1>6, <2>2 DEF Framing, Begun
<1> QED BY <1>3, <1>4, <1>5, <1>6

(* imap: a reply is one line, and a line that announced a literal.         *)
LEMMA DispatchFrames ==
  ASSUME NEW s \in States, NEW line \in Lines, Framing("imap", s), line # << >>
  PROVE  Framing("imap", Dispatch(s, line))
<1> DEFINE t == Dispatch(s, line)
           one == <<line>>
<1>1. s.replies \in Seq(Seq(Lines)) /\ one \in Seq(Lines) /\ Len(one) = 1 /\ one[1] = line
  BY PartsTyped
<1> HIDE DEF Lines
<1>3. CASE Kind(line) \in {"last", "rlit2"}
  <2>1. t = [s EXCEPT !.replies = Append(@, one)]
    BY <1>3 DEF Dispatch
  <2> HIDE DEF t
  <2>2. IsKind(one[1], ReplyEnds("imap", one))
    BY <1>1, <1>3 DEF IsKind, ReplyEnds
  <2> HIDE DEF one
  <2>3. FramedReply("imap", one)
    BY <1>1, <2>2, OneIsFramed
  <2>4. AllFramed("imap", Append(s.replies, one))
    BY <1>1, <2>3, AppendFramed DEF Framing
  <2>5. t.replies = Append(s.replies, one) /\ t.pending = s.pending /\ t.buffer = s.buffer
    BY <2>1 DEF States
  <2> QED BY <2>4, <2>5 DEF Framing, Begun, t
<1>4. CASE Kind(line) \notin {"last", "rlit2"}
  <2>1. t = Command(s, line)
    BY <1>4 DEF Dispatch
  <2>2. t.replies = s.replies /\ t.pending = s.pending /\ t.buffer = s.buffer
    BY <2>1, CommandLeaves
  <2> QED BY <2>2 DEF Framing, Begun
<1> QED BY <1>3, <1>4

LEMMA ImapLineFrames ==
  ASSUME NEW s \in States, NEW text \in Lines, Framing("imap", s)
  PROVE  Framing("imap", ImapLine(s, text))
<1> DEFINE end == text[Len(text)][1]
           t == ImapLine(s, text)
           one == <<text>>
<1>1. one \in Seq(Lines) /\ DOMAIN one = {1} /\ one[1] = text
  OBVIOUS
<1> HIDE DEF Lines
<1>2. CASE text = << >>
  BY <1>2 DEF ImapLine
<1>3. CASE text # << >> /\ end \in {"lit0", "lit2", "rlit2"}
  <2>1. \/ t = [s EXCEPT !.lit = 2, !.pending = one]
        \/ t = [s EXCEPT !.pending = one]
    BY <1>3 DEF ImapLine
  <2> HIDE DEF t, one
  <2>2. t.replies = s.replies /\ t.pending = one /\ t.buffer = s.buffer
    BY <2>1 DEF States
  <2>3. \A j \in DOMAIN one : one[j] # << >>
    BY <1>1, <1>3
  <2> QED BY <2>2, <2>3 DEF Framing, Begun, t
<1>4. CASE text # << >> /\ end \notin {"lit0", "lit2", "rlit2"}
  <2>1. t = Dispatch(s, text)
    BY <1>4 DEF ImapLine
  <2> QED BY <1>4, <2>1, DispatchFrames
<1> QED BY <1>2, <1>3, <1>4

-----------------------------------------------------------------------------
(* A round, a loop, and a feed keep the framing.                           *)
LEMMA ShorterFrames ==
  ASSUME NEW p, NEW s \in States, NEW b \in Lines, Framing(p, s)
  PROVE  Framing(p, With(s, b))
<1>1. /\ With(s, b).buffer = b /\ With(s, b).replies = s.replies
      /\ With(s, b).pending = s.pending /\ With(s, b).multi = s.multi
  BY WithIs
<1> QED BY <1>1 DEF Framing, Begun

LEMMA LineStepFrames ==
  ASSUME NEW p \in AllParsers, NEW s \in States, NEW text \in Lines, Framing(p, s)
  PROVE  Framing(p, LineStep(p, s, text))
<1>1. CASE p = "ftp"
  <2>1. Framing(p, Numbered(s, text, IF p = "ftp" THEN {"last", "odd"} ELSE {"last"}))
    BY <1>1, NumberedFrames
  <2> QED BY <1>1, <2>1 DEF LineStep
<1>2. CASE p = "smtp"
  <2>1. Framing(p, Numbered(s, text, IF p = "ftp" THEN {"last", "odd"} ELSE {"last"}))
    BY <1>2, NumberedFrames
  <2> QED BY <1>2, <2>1 DEF LineStep
<1>3. CASE p = "pop3"
  BY <1>3, PopLineFrames DEF LineStep
<1>4. CASE p = "imap"
  BY <1>4, ImapLineFrames DEF LineStep
<1> QED BY <1>1, <1>2, <1>3, <1>4 DEF AllParsers

LEMMA RoundFrames ==
  ASSUME NEW p \in AllParsers, NEW s, Good(p, s), Framing(p, s)
  PROVE  Framing(p, Round(p, s))
<1>1. /\ s \in States /\ s.buffer \in Lines /\ s.lit \in Nat /\ s.pending \in Seq(Lines)
      /\ Len(s.buffer) \in Nat
  BY GoodTyped DEF Good
<1>3. CASE ~ Ready(p, s)
  BY <1>3, RoundIdle
<1>4. CASE Ready(p, s) /\ ~ (p = "imap" /\ s.lit > 0)
  <2> DEFINE end  == LineEnd(s.buffer)
             text == Stripped(SubSeq(s.buffer, 1, end))
             rest == SubSeq(s.buffer, end + 1, Len(s.buffer))
             t == With(s, rest)
  <2>1. /\ Round(p, s) = LineStep(p, t, text)
        /\ text \in Lines /\ rest \in Lines
        /\ end \in Nat /\ end <= Len(s.buffer)
    <3>1. end # 0
      BY <1>4 DEF Ready
    <3> QED BY <1>1, <1>4, <3>1, RoundIsLine, LineEndIs
  <2>3. t \in States /\ Framing(p, t)
    <3> HIDE DEF rest, Lines
    <3> QED BY <1>1, <2>1, WithIs, ShorterFrames
  <2> HIDE DEF t, text
  <2> QED BY <2>1, <2>3, LineStepFrames
<1>5. CASE Ready(p, s) /\ p = "imap" /\ s.lit > 0
  <2> DEFINE text == s.pending[1] \o SubSeq(s.buffer, 1, s.lit)
             rest == SubSeq(s.buffer, s.lit + 1, Len(s.buffer))
             free == [s EXCEPT !.lit = 0, !.pending = << >>]
             t == With(free, rest)
  <2>1. s.lit <= Len(s.buffer) /\ s.pending # << >>
    BY <1>5 DEF Ready, Good, LitSound
  <2>2. /\ Round("imap", s) = Dispatch(t, text)
        /\ text \in Lines /\ rest \in Lines /\ free \in States
    BY <1>1, <1>5, <2>1, RoundIsLiteral
  <2>3. s.pending[1] \in Lines /\ s.pending[1] # << >>
    <3> DEFINE q == s.pending
    <3>1. q \in Seq(Lines) /\ q # << >>
      BY <1>1, <2>1
    <3>2. \A j \in DOMAIN q : q[j] # << >>
      BY <1>5 DEF Framing, Begun
    <3> HIDE DEF q, Lines
    <3>3. 1 \in DOMAIN q /\ q[1] \in Lines
      BY <3>1
    <3> QED BY <3>2, <3>3 DEF q
  <2>5. text # << >>
    <3>1. SubSeq(s.buffer, 1, s.lit) \in Lines
      BY <1>1, <2>1, Halves
    <3>3. Len(text) > 0
      <4> DEFINE a == s.pending[1]
                 b == SubSeq(s.buffer, 1, s.lit)
      <4>1. a \in Lines /\ b \in Lines /\ a # << >>
        BY <2>3, <3>1
      <4> HIDE DEF a, b
      <4>2. Len(a \o b) = Len(a) + Len(b) /\ Len(a) \in Nat \ {0} /\ Len(b) \in Nat
        BY <4>1 DEF Lines
      <4>3. Len(a \o b) > 0
        BY <4>2
      <4> QED BY <4>3 DEF a, b
    <3>4. Len(<< >>) = 0
      OBVIOUS
    <3> HIDE DEF text
    <3> QED BY <3>3, <3>4
  <2>6. Framing("imap", free)
    <3>1. free.replies = s.replies /\ free.pending = << >> /\ free.buffer = s.buffer
      BY <1>1 DEF States
    <3> HIDE DEF free
    <3> QED BY <3>1, <1>5 DEF Framing, Begun
  <2>7. t \in States /\ Framing("imap", t)
    <3> HIDE DEF rest, free, Lines
    <3> QED BY <2>2, <2>6, WithIs, ShorterFrames
  <2> HIDE DEF t, text
  <2> QED BY <1>5, <2>2, <2>5, <2>7, DispatchFrames
<1> QED BY <1>3, <1>4, <1>5

LEMMA ProcessFrames ==
  ASSUME NEW p \in AllParsers, NEW s, Good(p, s), Framing(p, s)
  PROVE  Framing(p, Process(p, s))
<1> DEFINE n == Len(s.buffer)
<1>1. n \in Nat
  BY GoodTyped
<1>2. PICK f : Runs(p, s, f, n) /\ Process(p, s) = f[n]
  BY <1>1, ProcessRuns
<1> DEFINE T == {i \in 0 .. n : ~ Framing(p, f[i])}
<1> HIDE DEF n
<1>3. T = {}
  <2> SUFFICES ASSUME T # {} PROVE FALSE
    OBVIOUS
  <2>1. PICK m \in T : \A j \in T : m <= j
    <3>1. T \in SUBSET Nat
      BY <1>1
    <3> HIDE DEF T
    <3> QED BY <3>1, LeastNatural
  <2>2. f[0] = s /\ \A i \in 0 .. n : i + 1 <= n => f[i + 1] = Round(p, f[i])
    BY <1>1, <1>2, RunsValues
  <2>3. m \in 0 .. n /\ ~ Framing(p, f[m])
    OBVIOUS
  <2>4. m - 1 \in 0 .. n /\ (m - 1) + 1 = m /\ m <= n /\ m - 1 \notin T
    <3> HIDE DEF T
    <3> QED BY <1>1, <2>1, <2>2, <2>3
  <2>5. Framing(p, f[m - 1])
    BY <2>4
  <2>6. f[m] = Round(p, f[m - 1])
    BY <2>2, <2>4
  <2>7. Good(p, f[m - 1])
    BY <1>1, <1>2, <2>4, RunsWork DEF Worked
  <2> QED BY <2>3, <2>5, <2>6, <2>7, RoundFrames
<1> QED BY <1>1, <1>2, <1>3

LEMMA FeedFrames ==
  ASSUME NEW p \in AllParsers, NEW s, Good(p, s), Framing(p, s), NEW data \in Lines
  PROVE  Framing(p, Feed(p, s, data))
<1> DEFINE u == Fed(s, data)
           t == Process(p, u)
<1>1. Good(p, u) /\ s \in States /\ s.buffer \in Lines /\ s.buffer \o data \in Lines
  BY FedIs DEF Good
<1>3. Framing(p, u)
  BY <1>1, ShorterFrames DEF Fed
<1> HIDE DEF u
<1>4. Good(p, t) /\ Framing(p, t)
  BY <1>1, <1>3, ProcessDone, ProcessFrames
<1>5. Feed(p, s, data) = AtEnd(p, t)
  BY FeedIs DEF u
<1> HIDE DEF t
<1>6. CASE p = "pop3" /\ Flushes(t)
  <2>1. /\ AllFramed("pop3", FlushPending(t).replies)
        /\ FlushPending(t).pending = << >> /\ FlushPending(t).multi = FALSE
    BY <1>4, <1>6, FlushFrames DEF Flushes, Good
  <2>2. Framing("pop3", FlushPending(t))
    BY <2>1 DEF Framing, Begun
  <2> QED BY <1>5, <1>6, <2>2 DEF AtEnd
<1>7. CASE ~ (p = "pop3" /\ Flushes(t))
  BY <1>4, <1>5, <1>7 DEF AtEnd
<1> QED BY <1>6, <1>7

(* What holds of the framing between feeds.                                *)
FramingInv == Typed /\ Framing(parser, st)

LEMMA FramesInit == Init => FramingInv
<1> SUFFICES ASSUME Init PROVE FramingInv
  OBVIOUS
<1>1. Typed
  BY TypedInit
<1>2. st = New /\ segment = << >>
  BY DEF Init
<1>3. Framing(parser, New)
  BY DEF Framing, Begun, New, AllFramed, NoneIs
<1> QED BY <1>1, <1>2, <1>3 DEF FramingInv

LEMMA FramesStep == FramingInv /\ [Next]_vars => FramingInv'
<1> SUFFICES ASSUME FramingInv, [Next]_vars PROVE FramingInv'
  OBVIOUS
<1>1. Typed'
  BY TypedStep DEF FramingInv
<1>2. CASE Deliver
  <2>1. Framing(parser, Feed(parser, st, segment))
    BY FeedFrames DEF Typed, FramingInv
  <2> QED BY <1>1, <1>2, <2>1 DEF Deliver, FramingInv
<1>3. ASSUME NEW k \in Kinds[parser] \cup {"cr", "lf"}, Arrive(k)
      PROVE  FramingInv'
  BY <1>1, <1>3 DEF Arrive, FramingInv
<1>4. CASE UNCHANGED vars
  BY <1>1, <1>4 DEF vars, FramingInv
<1> QED BY <1>2, <1>3, <1>4 DEF Next

(* A reply that the parsers of ftp.py and smtp.py report ends with a line  *)
(* that ends one and has no such line inside, for every stream of lines    *)
(* and every way to cut it.                                                *)
THEOREM RepliesAreFramed == Spec => []EndedOnce
<1>1. FramingInv => EndedOnce
  <2> SUFFICES ASSUME FramingInv PROVE EndedOnce
    OBVIOUS
  <2>1. AllFramed(parser, st.replies)
    BY DEF FramingInv, Framing
  <2> QED BY <2>1 DEF EndedOnce, EndKinds, AllFramed, FramedReply, IsKind, ReplyEnds
<1> QED BY <1>1, FramesInit, FramesStep, PTL DEF Spec
-----------------------------------------------------------------------------
(* Completeness and order.  The stream: symbol i is at position i, and a   *)
(* line's content comes right after the end of another line.               *)
Shaped(G) ==
  /\ \A i \in DOMAIN G : G[i][2] = i
  /\ \A i \in DOMAIN G : G[i][1] = "lf" => i - 1 \in DOMAIN G /\ G[i - 1][1] = "cr"
  /\ \A i \in DOMAIN G : G[i][1] \notin {"cr", "lf"} /\ i # 1 => G[i - 1][1] = "lf"

(* The lines U hold what is wanted of the first n symbols of G, each       *)
(* symbol in one of them.                                                  *)
Held(U, G, n) ==
  /\ \A l \in U : \A x \in Range(l) : x[2] <= n
  /\ \A k \in 1 .. n : G[k][1] \notin {"cr", "lf", "lit0"} => \E l \in U : G[k] \in Marks(l)
  /\ \A l, m \in U : Marks(l) # Marks(m) => Marks(l) \cap Marks(m) = {}

(* Where a line starts.                                                    *)
Begin(line) == line[1][2]

(* What is done and what is begun came in order.                           *)
LinesRise(lines) ==
  \A i, j \in DOMAIN lines :
    i < j /\ lines[i] # << >> /\ lines[j] # << >> => Begin(lines[i]) < Begin(lines[j])
RepliesRise(replies) ==
  /\ \A i \in DOMAIN replies : replies[i] # << >> /\ replies[i][1] # << >>
  /\ \A i, j \in DOMAIN replies : i < j => Begin(replies[i][1]) < Begin(replies[j][1])
Waiting(p, s) ==
  /\ s.pending # << >> => s.pending[1] # << >>
  /\ p # "imap" /\ s.pending # << >> =>
       \A i \in DOMAIN s.replies : Begin(s.replies[i][1]) < Begin(s.pending[1])
  /\ p = "imap" => Len(s.pending) <= 1
  /\ p = "imap" /\ s.lit > 0 =>
       /\ \A l \in DoneLines(s) : \A x \in Range(l) : x[2] < Begin(s.pending[1])
       /\ \A x \in Range(s.pending[1]) : Begin(s.pending[1]) <= x[2]
  /\ p = "imap" /\ s.lit = 0 => \A l \in Range(s.pending) : \A x \in Marks(l) : x[1] = "lit0"

Sorted(p, s) == LinesRise(s.commands) /\ RepliesRise(s.replies) /\ Waiting(p, s)

(* The buffer is the rest of the stream behind its first n symbols.        *)
RestOf(b, G, n) == Len(G) = n + Len(b) /\ \A i \in 1 .. Len(b) : b[i] = G[n + i]

Stored(p, s, G) ==
  \E n \in 0 .. Len(G) : RestOf(s.buffer, G, n) /\ Held(AllLines(s), G, n) /\ Sorted(p, s)

(* The line text is what of the symbols n + 1 .. m of G is not the end of  *)
(* a line; only the end of a line follows it.                              *)
Taken(text, G, n, m) ==
  /\ n <= m /\ m <= Len(G) /\ n + Len(text) <= m
  /\ \A i \in 1 .. Len(text) : text[i] = G[n + i]
  /\ \A k \in n + Len(text) + 1 .. m : G[k][1] \in {"cr", "lf"}

LEMMA SymbolIs ==
  ASSUME NEW l \in Lines
  PROVE  /\ DOMAIN l = 1 .. Len(l) /\ Len(l) \in Nat
         /\ \A i \in 1 .. Len(l) : l[i] \in Symbols /\ l[i][2] \in Nat
         /\ \A x \in Range(l) : x \in Symbols /\ x[2] \in Nat
         /\ \A x \in Range(l) : \E i \in 1 .. Len(l) : x = l[i]
         /\ \A i \in 1 .. Len(l) : l[i] \in Range(l)
         /\ Marks(l) = {x \in Range(l) : x[1] \notin {"cr", "lf"}}
<1>1. DOMAIN l = 1 .. Len(l) /\ Len(l) \in Nat /\ \A i \in 1 .. Len(l) : l[i] \in Symbols
  BY DEF Lines
<1>2. \A x \in Symbols : x[2] \in Nat
  BY DEF Symbols
<1> HIDE DEF Lines, Symbols
<1> QED BY <1>1, <1>2 DEF Range, Marks

LEMMA BeginIs ==
  ASSUME NEW l \in Lines, l # << >>
  PROVE  Begin(l) \in Nat /\ l[1] \in Range(l) /\ Begin(l) = l[1][2]
<1>1. Len(l) # 0
  BY DEF Lines
<1>2. 1 \in 1 .. Len(l)
  BY <1>1, SymbolIs
<1> QED BY <1>2, SymbolIs DEF Begin

LEMMA TakenIs ==
  ASSUME NEW G \in Lines, Shaped(G), NEW n \in Nat, NEW m \in Nat, NEW text \in Lines,
         Taken(text, G, n, m)
  PROVE  /\ \A x \in Range(text) : n < x[2] /\ x[2] <= m /\ x[2] \in Nat
         /\ text # << >> => Begin(text) = n + 1
<1>1. ASSUME NEW i \in 1 .. Len(text)
      PROVE  text[i][2] = n + i /\ n < n + i /\ n + i <= m
  <2>1. n + i \in 1 .. Len(G) /\ n < n + i /\ n + i <= m
    BY SymbolIs DEF Taken
  <2>2. G[n + i][2] = n + i
    BY <2>1, SymbolIs DEF Shaped
  <2> QED BY <2>1, <2>2 DEF Taken
<1>2. ASSUME NEW x \in Range(text) PROVE n < x[2] /\ x[2] <= m /\ x[2] \in Nat
  <2>1. PICK i \in 1 .. Len(text) : x = text[i]
    BY SymbolIs
  <2>2. i \in Nat
    BY <2>1, SymbolIs
  <2> QED BY <1>1, <2>1, <2>2
<1>3. text # << >> => Begin(text) = n + 1
  <2> SUFFICES ASSUME text # << >> PROVE Begin(text) = n + 1
    OBVIOUS
  <2>1. 1 \in 1 .. Len(text)
    <3>1. Len(text) # 0 /\ Len(text) \in Nat
      BY DEF Lines
    <3> QED BY <3>1
  <2> QED BY <1>1, <2>1 DEF Begin
<1> QED BY <1>2, <1>3

(* The next line, kept with the others ...                                 *)
LEMMA HeldNext ==
  ASSUME NEW U \in SUBSET Lines, NEW G \in Lines, Shaped(G), NEW n \in Nat, NEW m \in Nat,
         NEW text \in Lines, Held(U, G, n), Taken(text, G, n, m)
  PROVE  Held(U \cup {text}, G, m)
<1>1. \A x \in Range(text) : n < x[2] /\ x[2] <= m /\ x[2] \in Nat
  BY TakenIs
<1>2. n <= m
  BY DEF Taken
<1>3. ASSUME NEW l \in U, NEW x \in Range(l) PROVE x[2] <= n /\ x[2] <= m /\ x[2] \in Nat
  <2>1. x[2] <= n /\ x[2] \in Nat
    BY SymbolIs DEF Held
  <2> QED BY <2>1, <1>2
<1>4. ASSUME NEW k \in 1 .. m, G[k][1] \notin {"cr", "lf", "lit0"}
      PROVE  \E l \in U \cup {text} : G[k] \in Marks(l)
  <2>1. CASE k <= n
    <3>1. k \in 1 .. n
      BY <2>1
    <3> QED BY <1>4, <3>1 DEF Held
  <2>2. CASE n < k
    <3>1. Len(text) \in Nat
      BY SymbolIs
    <3>2. ~ (n + Len(text) < k)
      <4> SUFFICES ASSUME n + Len(text) < k PROVE FALSE
        OBVIOUS
      <4>1. k \in n + Len(text) + 1 .. m
        BY <3>1
      <4> QED BY <4>1, <1>4 DEF Taken
    <3>3. k - n \in 1 .. Len(text) /\ n + (k - n) = k
      BY <2>2, <3>1, <3>2
    <3>4. text[k - n] = G[k] /\ text[k - n] \in Range(text)
      <4>1. text[k - n] = G[n + (k - n)]
        BY <3>3 DEF Taken
      <4> QED BY <4>1, <3>3, SymbolIs
    <3>5. G[k] \in Marks(text)
      BY <1>4, <3>4, SymbolIs
    <3> QED BY <3>5
  <2> QED BY <2>1, <2>2
<1>5. ASSUME NEW l \in U PROVE Marks(l) \cap Marks(text) = {}
  <2>1. Marks(l) \subseteq Range(l) /\ Marks(text) \subseteq Range(text)
    BY SymbolIs
  <2> QED BY <2>1, <1>1, <1>3
<1>6. \A l, k \in U \cup {text} : Marks(l) # Marks(k) => Marks(l) \cap Marks(k) = {}
  <2>1. \A l, k \in U : Marks(l) # Marks(k) => Marks(l) \cap Marks(k) = {}
    BY DEF Held
  <2> QED BY <2>1, <1>5
<1> QED BY <1>1, <1>3, <1>4, <1>6 DEF Held

(* ... nothing but the end of a line ...                                   *)
LEMMA HeldSkip ==
  ASSUME NEW U \in SUBSET Lines, NEW G \in Lines, NEW n \in Nat, NEW m \in Nat,
         Held(U, G, n), Taken(<< >>, G, n, m)
  PROVE  Held(U, G, m)
<1>1. n <= m /\ \A k \in n + 1 .. m : G[k][1] \in {"cr", "lf"}
  BY DEF Taken
<1>2. ASSUME NEW l \in U, NEW x \in Range(l) PROVE x[2] <= m
  <2>1. x[2] <= n /\ x[2] \in Nat
    BY SymbolIs DEF Held
  <2> QED BY <2>1, <1>1
<1>3. ASSUME NEW k \in 1 .. m, G[k][1] \notin {"cr", "lf", "lit0"}
      PROVE  \E l \in U : G[k] \in Marks(l)
  <2>1. k \in 1 .. n
    BY <1>1, <1>3
  <2> QED BY <1>3, <2>1 DEF Held
<1> QED BY <1>2, <1>3 DEF Held

(* ... and lines that only announce an empty literal dropped.              *)
LEMMA HeldDrop ==
  ASSUME NEW U, NEW V \in SUBSET U, NEW G, NEW n, Held(U, G, n),
         \A l \in U \ V : \A x \in Marks(l) : x[1] = "lit0"
  PROVE  Held(V, G, n)
<1>1. ASSUME NEW k \in 1 .. n, G[k][1] \notin {"cr", "lf", "lit0"}
      PROVE  \E l \in V : G[k] \in Marks(l)
  <2>1. PICK l \in U : G[k] \in Marks(l)
    BY <1>1 DEF Held
  <2>2. l \in V
    BY <1>1, <2>1
  <2> QED BY <2>1, <2>2
<1> QED BY <1>1 DEF Held

(* A line goes on with its literal.                                        *)
LEMMA HeldJoin ==
  ASSUME NEW D \in SUBSET Lines, NEW q \in Lines, q # << >>, NEW G \in Lines, Shaped(G),
         NEW n \in Nat, NEW m \in Nat, NEW text \in Lines,
         Held(D \cup {q}, G, n), Taken(text, G, n, m),
         \A l \in D : \A x \in Range(l) : x[2] < Begin(q),
         \A x \in Range(q) : Begin(q) <= x[2]
  PROVE  Held(D \cup {q \o text}, G, m)
<1> DEFINE line == q \o text
<1>1. \A x \in Range(text) : n < x[2] /\ x[2] <= m /\ x[2] \in Nat
  BY TakenIs
<1>2. n <= m /\ Begin(q) \in Nat
  BY BeginIs DEF Taken
<1>3. line \in Lines /\ Range(line) = Range(q) \cup Range(text)
  <2>1. /\ line \in Lines /\ Len(line) = Len(q) + Len(text)
        /\ Len(q) \in Nat /\ Len(text) \in Nat
        /\ \A i \in 1 .. Len(q) : line[i] = q[i]
        /\ \A i \in 1 .. Len(text) : line[Len(q) + i] = text[i]
    BY DEF Lines
  <2> HIDE DEF line
  <2>2. ASSUME NEW x \in Range(line) PROVE x \in Range(q) \cup Range(text)
    <3>1. PICK i \in 1 .. Len(line) : x = line[i]
      BY <2>1, SymbolIs
    <3>2. CASE i <= Len(q)
      <4>1. i \in 1 .. Len(q)
        BY <2>1, <3>1, <3>2
      <4> QED BY <2>1, <3>1, <4>1, SymbolIs
    <3>3. CASE Len(q) < i
      <4>1. i - Len(q) \in 1 .. Len(text) /\ Len(q) + (i - Len(q)) = i
        BY <2>1, <3>1, <3>3
      <4>2. line[i] = text[i - Len(q)]
        BY <2>1, <4>1
      <4> QED BY <3>1, <4>1, <4>2, SymbolIs
    <3> QED BY <2>1, <3>1, <3>2, <3>3
  <2>3. ASSUME NEW x \in Range(q) PROVE x \in Range(line)
    <3>1. PICK i \in 1 .. Len(q) : x = q[i]
      BY SymbolIs
    <3>2. i \in 1 .. Len(line) /\ x = line[i]
      BY <2>1, <3>1
    <3> QED BY <2>1, <3>2, SymbolIs
  <2>4. ASSUME NEW x \in Range(text) PROVE x \in Range(line)
    <3>1. PICK i \in 1 .. Len(text) : x = text[i]
      BY SymbolIs
    <3>2. Len(q) + i \in 1 .. Len(line) /\ x = line[Len(q) + i]
      BY <2>1, <3>1
    <3> QED BY <2>1, <3>2, SymbolIs
  <2> QED BY <2>1, <2>2, <2>3, <2>4
<1> HIDE DEF line
<1>4. Held((D \cup {q}) \cup {text}, G, m)
  BY HeldNext
<1>5. Marks(line) = Marks(q) \cup Marks(text)
  BY <1>3, SymbolIs
<1>6. ASSUME NEW l \in D PROVE Marks(l) \cap Marks(line) = {}
  <2>1. /\ Marks(l) \subseteq Range(l) /\ Marks(text) \subseteq Range(text)
        /\ Marks(q) \subseteq Range(q)
    BY SymbolIs
  <2>2. \A x \in Range(l) : x[2] <= n /\ x[2] < Begin(q) /\ x[2] \in Nat
    BY SymbolIs DEF Held
  <2>3. \A x \in Range(q) : Begin(q) <= x[2] /\ x[2] \in Nat
    BY SymbolIs
  <2> QED BY <2>1, <2>2, <2>3, <1>1, <1>2, <1>5
<1>7. \A l \in D \cup {line} : \A x \in Range(l) : x[2] <= m
  BY <1>3, <1>4 DEF Held
<1>8. ASSUME NEW k \in 1 .. m, G[k][1] \notin {"cr", "lf", "lit0"}
      PROVE  \E l \in D \cup {line} : G[k] \in Marks(l)
  <2>1. PICK l \in (D \cup {q}) \cup {text} : G[k] \in Marks(l)
    BY <1>4, <1>8 DEF Held
  <2> QED BY <2>1, <1>5
<1>9. \A l, k \in D \cup {line} : Marks(l) # Marks(k) => Marks(l) \cap Marks(k) = {}
  <2>1. \A l, k \in D : Marks(l) # Marks(k) => Marks(l) \cap Marks(k) = {}
    BY DEF Held
  <2> QED BY <2>1, <1>6
<1> QED BY <1>7, <1>8, <1>9 DEF Held, line

-----------------------------------------------------------------------------
(* What each handler does with the lines.                                  *)
Kept(p, s, G, n) == Held(AllLines(s), G, n) /\ Sorted(p, s)
LinesIn(replies) == UNION {Range(replies[i]) : i \in DOMAIN replies}

LEMMA AppendRange ==
  ASSUME NEW S, NEW q \in Seq(S), NEW x \in S
  PROVE  /\ Range(Append(q, x)) = Range(q) \cup {x} /\ Range(q) \subseteq S
         /\ Append(q, x) \in Seq(S)
<1> DEFINE r == Append(q, x)
<1>1. /\ Len(q) \in Nat /\ DOMAIN q = 1 .. Len(q) /\ DOMAIN r = 1 .. Len(q) + 1
      /\ \A i \in 1 .. Len(q) : r[i] = q[i] /\ q[i] \in S
      /\ r[Len(q) + 1] = x /\ r \in Seq(S)
  OBVIOUS
<1> HIDE DEF r
<1>2. ASSUME NEW y \in Range(r) PROVE y \in Range(q) \cup {x}
  <2>1. PICK i \in 1 .. Len(q) + 1 : y = r[i]
    BY <1>1 DEF Range
  <2>2. CASE i = Len(q) + 1
    BY <2>1, <2>2, <1>1
  <2>3. CASE i # Len(q) + 1
    <3>1. i \in 1 .. Len(q)
      BY <2>1, <2>3, <1>1
    <3> QED BY <2>1, <3>1, <1>1 DEF Range
  <2> QED BY <2>2, <2>3
<1>3. ASSUME NEW y \in Range(q) PROVE y \in Range(r)
  <2>1. PICK i \in 1 .. Len(q) : y = q[i]
    BY <1>1 DEF Range
  <2>2. i \in 1 .. Len(q) + 1 /\ r[i] = y
    BY <2>1, <1>1
  <2> QED BY <2>2, <1>1 DEF Range
<1>4. x \in Range(r)
  <2>1. Len(q) + 1 \in 1 .. Len(q) + 1
    BY <1>1
  <2> QED BY <2>1, <1>1 DEF Range
<1>5. Range(q) \subseteq S
  BY <1>1 DEF Range
<1> QED BY <1>1, <1>2, <1>3, <1>4, <1>5 DEF r

LEMMA AppendReplies ==
  ASSUME NEW replies \in Seq(Seq(Lines)), NEW r \in Seq(Lines)
  PROVE  /\ LinesIn(Append(replies, r)) = LinesIn(replies) \cup Range(r)
         /\ LinesIn(replies) \in SUBSET Lines
<1> DEFINE more == Append(replies, r)
<1> HIDE DEF Lines
<1>1. /\ Len(replies) \in Nat /\ DOMAIN more = 1 .. Len(replies) + 1
      /\ DOMAIN replies = 1 .. Len(replies)
      /\ \A i \in 1 .. Len(replies) : more[i] = replies[i] /\ replies[i] \in Seq(Lines)
      /\ more[Len(replies) + 1] = r
  OBVIOUS
<1> HIDE DEF more
<1>2. ASSUME NEW l \in LinesIn(more) PROVE l \in LinesIn(replies) \cup Range(r)
  <2>1. PICK i \in 1 .. Len(replies) + 1 : l \in Range(more[i])
    BY <1>1 DEF LinesIn
  <2>2. CASE i = Len(replies) + 1
    BY <2>1, <2>2, <1>1
  <2>3. CASE i # Len(replies) + 1
    <3>1. i \in 1 .. Len(replies)
      BY <2>1, <2>3, <1>1
    <3> QED BY <2>1, <3>1, <1>1 DEF LinesIn
  <2> QED BY <2>2, <2>3
<1>3. ASSUME NEW l \in LinesIn(replies) PROVE l \in LinesIn(more)
  <2>1. PICK i \in 1 .. Len(replies) : l \in Range(replies[i])
    BY <1>1 DEF LinesIn
  <2>2. i \in 1 .. Len(replies) + 1 /\ l \in Range(more[i])
    BY <2>1, <1>1
  <2> QED BY <2>2, <1>1 DEF LinesIn
<1>4. ASSUME NEW l \in Range(r) PROVE l \in LinesIn(more)
  <2>1. Len(replies) + 1 \in 1 .. Len(replies) + 1
    BY <1>1
  <2> QED BY <2>1, <1>1 DEF LinesIn
<1>5. ASSUME NEW l \in LinesIn(replies) PROVE l \in Lines
  <2>1. PICK i \in 1 .. Len(replies) : l \in Range(replies[i])
    BY <1>1 DEF LinesIn
  <2>2. replies[i] \in Seq(Lines)
    BY <2>1, <1>1
  <2> DEFINE q == replies[i]
  <2>3. q \in Seq(Lines) /\ l \in Range(q)
    BY <2>1, <2>2
  <2> HIDE DEF q
  <2>4. \A j \in DOMAIN q : q[j] \in Lines
    BY <2>3
  <2> QED BY <2>3, <2>4 DEF Range
<1> QED BY <1>2, <1>3, <1>4, <1>5 DEF more

LEMMA AllTyped ==
  ASSUME NEW s \in States
  PROVE  /\ DoneLines(s) = Range(s.commands) \cup LinesIn(s.replies)
         /\ DoneLines(s) \in SUBSET Lines /\ AllLines(s) \in SUBSET Lines
         /\ AllLines(s) = DoneLines(s) \cup Range(s.pending)
         /\ s.commands \in Seq(Lines) /\ s.replies \in Seq(Seq(Lines))
         /\ s.pending \in Seq(Lines)
<1>1. /\ s.commands \in Seq(Lines) /\ s.replies \in Seq(Seq(Lines))
      /\ s.pending \in Seq(Lines)
  BY DEF States
<1>2. << >> \in Lines /\ << >> \in Seq(Lines)
  BY DEF Lines
<1> HIDE DEF Lines
<1>3. Range(s.commands) \in SUBSET Lines /\ Range(s.pending) \in SUBSET Lines
  BY <1>1, <1>2, AppendRange
<1>4. LinesIn(s.replies) \in SUBSET Lines
  BY <1>1, <1>2, AppendReplies
<1> QED BY <1>1, <1>3, <1>4 DEF DoneLines, AllLines, LinesIn

(* One more in order.                                                      *)
LEMMA CommandsRise ==
  ASSUME NEW lines \in Seq(Lines), NEW line \in Lines, LinesRise(lines),
         \A l \in Range(lines) : l # << >> /\ line # << >> => Begin(l) < Begin(line)
  PROVE  LinesRise(Append(lines, line))
<1> DEFINE r == Append(lines, line)
           n == Len(lines)
<1>1. /\ n \in Nat /\ DOMAIN r = 1 .. n + 1 /\ DOMAIN lines = 1 .. n
      /\ \A i \in 1 .. n : r[i] = lines[i]
      /\ r[n + 1] = line
  BY AppendedIs
<1> HIDE DEF r, n
<1>2. ASSUME NEW i \in DOMAIN r, NEW j \in DOMAIN r, i < j, r[i] # << >>, r[j] # << >>
      PROVE  Begin(r[i]) < Begin(r[j])
  <2>1. i \in 1 .. n /\ r[i] = lines[i] /\ i \in DOMAIN lines
    BY <1>1, <1>2
  <2>2. CASE j = n + 1
    <3>1. r[j] = line /\ r[i] \in Range(lines)
      BY <2>1, <2>2, <1>1 DEF Range
    <3> QED BY <3>1, <1>2
  <2>3. CASE j # n + 1
    <3>1. j \in DOMAIN lines /\ r[j] = lines[j]
      BY <2>3, <1>1
    <3> QED BY <2>1, <3>1, <1>2 DEF LinesRise
  <2> QED BY <2>2, <2>3
<1> QED BY <1>2 DEF LinesRise, r

LEMMA OneMoreReply ==
  ASSUME NEW replies \in Seq(Seq(Lines)), NEW r \in Seq(Lines), RepliesRise(replies),
         r # << >>, r[1] # << >>,
         \A i \in DOMAIN replies : Begin(replies[i][1]) < Begin(r[1])
  PROVE  RepliesRise(Append(replies, r))
<1> DEFINE more == Append(replies, r)
           n == Len(replies)
<1> HIDE DEF Lines
<1>1. /\ n \in Nat /\ DOMAIN more = 1 .. n + 1 /\ DOMAIN replies = 1 .. n
      /\ \A i \in 1 .. n : more[i] = replies[i]
      /\ more[n + 1] = r
  OBVIOUS
<1> HIDE DEF more, n
<1>2. ASSUME NEW i \in DOMAIN more PROVE more[i] # << >> /\ more[i][1] # << >>
  <2>1. CASE i = n + 1
    BY <2>1, <1>1
  <2>2. CASE i # n + 1
    <3>1. i \in DOMAIN replies /\ more[i] = replies[i]
      BY <2>2, <1>1
    <3> QED BY <3>1 DEF RepliesRise
  <2> QED BY <2>1, <2>2
<1>3. ASSUME NEW i \in DOMAIN more, NEW j \in DOMAIN more, i < j
      PROVE  Begin(more[i][1]) < Begin(more[j][1])
  <2>1. i \in DOMAIN replies /\ more[i] = replies[i]
    BY <1>1, <1>3
  <2>2. CASE j = n + 1
    BY <2>1, <2>2, <1>1
  <2>3. CASE j # n + 1
    <3>1. j \in DOMAIN replies /\ more[j] = replies[j]
      BY <2>3, <1>1
    <3> QED BY <2>1, <3>1, <1>3 DEF RepliesRise
  <2> QED BY <2>2, <2>3
<1> QED BY <1>2, <1>3 DEF RepliesRise, more

(* A line that is taken now starts behind all that were taken before.      *)
LEMMA LaterLine ==
  ASSUME NEW p, NEW s \in States, NEW G \in Lines, Shaped(G), NEW n \in Nat, NEW m \in Nat,
         NEW text \in Lines, Kept(p, s, G, n), Taken(text, G, n, m), text # << >>
  PROVE  /\ \A l \in AllLines(s) : l # << >> => Begin(l) < Begin(text)
         /\ \A i \in DOMAIN s.replies : Begin(s.replies[i][1]) < Begin(text)
         /\ \A l \in AllLines(s) : \A x \in Range(l) : x[2] < Begin(text)
<1>1. Begin(text) = n + 1
  BY TakenIs
<1>2. \A l \in AllLines(s) : \A x \in Range(l) : x[2] <= n /\ x[2] \in Nat
  <2> SUFFICES ASSUME NEW l \in AllLines(s), NEW x \in Range(l)
               PROVE  x[2] <= n /\ x[2] \in Nat
    OBVIOUS
  <2>1. l \in Lines
    BY AllTyped
  <2> QED BY <2>1, SymbolIs DEF Kept, Held
<1>3. ASSUME NEW l \in AllLines(s), l # << >> PROVE Begin(l) < Begin(text)
  <2>1. l \in Lines
    BY AllTyped
  <2>2. Begin(l) \in Nat /\ l[1] \in Range(l) /\ Begin(l) = l[1][2]
    BY <1>3, <2>1, BeginIs
  <2> QED BY <1>1, <1>2, <2>2
<1>4. ASSUME NEW i \in DOMAIN s.replies PROVE Begin(s.replies[i][1]) < Begin(text)
  <2> DEFINE R == s.replies
             r == R[i]
  <2>1. R \in Seq(Seq(Lines)) /\ i \in DOMAIN R
    BY AllTyped
  <2>2. r # << >> /\ r[1] # << >>
    BY <2>1 DEF Kept, Sorted, RepliesRise
  <2>3. r \in Seq(Lines)
    <3> HIDE DEF R, Lines
    <3> QED BY <2>1
  <2>4. Range(r) \subseteq AllLines(s)
    BY <2>1 DEF AllLines, DoneLines
  <2> HIDE DEF r, R
  <2>5. 1 \in DOMAIN r
    <3> HIDE DEF Lines
    <3> QED BY <2>2, <2>3
  <2>6. r[1] \in AllLines(s)
    BY <2>4, <2>5 DEF Range
  <2> QED BY <2>2, <2>6, <1>3 DEF r, R
<1>5. \A l \in AllLines(s) : \A x \in Range(l) : x[2] < Begin(text)
  BY <1>1, <1>2
<1> QED BY <1>3, <1>4, <1>5

LEMMA SameKept ==
  ASSUME NEW p, NEW s, NEW t, NEW G, NEW n, Kept(p, s, G, n),
         t.commands = s.commands, t.replies = s.replies, t.pending = s.pending, t.lit = s.lit
  PROVE  Kept(p, t, G, n)
<1>1. DoneLines(t) = DoneLines(s) /\ AllLines(t) = AllLines(s)
  BY DEF AllLines, DoneLines
<1>2. Waiting(p, t)
  BY <1>1 DEF Kept, Sorted, Waiting
<1> QED BY <1>1, <1>2 DEF Kept, Sorted

LEMMA SkipKeeps ==
  ASSUME NEW p, NEW s \in States, NEW G \in Lines, NEW n \in Nat, NEW m \in Nat,
         Kept(p, s, G, n), Taken(<< >>, G, n, m)
  PROVE  Kept(p, s, G, m)
<1>1. AllLines(s) \in SUBSET Lines
  BY AllTyped
<1> QED BY <1>1, HeldSkip DEF Kept

LEMMA CommandKeeps ==
  ASSUME NEW p, NEW s \in States, p = "imap" => s.lit = 0,
         NEW G \in Lines, Shaped(G), NEW n \in Nat, NEW m \in Nat,
         NEW text \in Lines, Kept(p, s, G, n), Taken(text, G, n, m)
  PROVE  Kept(p, Command(s, text), G, m)
<1> DEFINE t == Command(s, text)
<1>1. /\ s.commands \in Seq(Lines) /\ AllLines(s) \in SUBSET Lines
      /\ Append(s.commands, text) \in Seq(Lines)
      /\ Range(Append(s.commands, text)) = Range(s.commands) \cup {text}
      /\ Range(s.commands) \subseteq AllLines(s)
  BY AllTyped, AppendRange
<1>2. /\ t.commands = Append(s.commands, text) /\ t.replies = s.replies
      /\ t.pending = s.pending /\ t.lit = s.lit
  <2> HIDE DEF Lines
  <2> QED BY <1>1 DEF Command, States
<1> HIDE DEF t
<1>3. AllLines(t) = AllLines(s) \cup {text}
  BY <1>1, <1>2 DEF AllLines, DoneLines
<1>4. Held(AllLines(t), G, m)
  BY <1>1, <1>3, HeldNext DEF Kept
<1>5. LinesRise(t.commands)
  <2>1. \A l \in Range(s.commands) : l # << >> /\ text # << >> => Begin(l) < Begin(text)
    BY <1>1, LaterLine
  <2> QED BY <1>1, <1>2, <2>1, CommandsRise DEF Kept, Sorted
<1>6. Waiting(p, t)
  <2>1. Waiting(p, s)
    BY DEF Kept, Sorted
  <2>2. p = "imap" => ~ (t.lit > 0)
    BY <1>2
  <2> QED BY <1>2, <2>1, <2>2 DEF Waiting
<1> QED BY <1>2, <1>4, <1>5, <1>6 DEF Kept, Sorted, t

LEMMA FirstIs ==
  ASSUME NEW lines \in Seq(Lines), NEW line \in Lines
  PROVE  /\ Append(lines, line) # << >>
         /\ Append(lines, line)[1] = IF lines = << >> THEN line ELSE lines[1]
         /\ lines # << >> => lines[1] \in Range(lines)
<1> HIDE DEF Lines
<1> QED BY DEF Range

LEMMA HoldKeeps ==
  ASSUME NEW p, p # "imap", NEW s \in States, NEW G \in Lines, Shaped(G),
         NEW n \in Nat, NEW m \in Nat, NEW text \in Lines,
         Kept(p, s, G, n), Taken(text, G, n, m), text # << >> \/ s.pending # << >>
  PROVE  Kept(p, Hold(s, text), G, m)
<1> DEFINE t == Hold(s, text)
           q == Append(s.pending, text)
<1>1. /\ s.pending \in Seq(Lines) /\ AllLines(s) \in SUBSET Lines
      /\ q \in Seq(Lines) /\ Range(q) = Range(s.pending) \cup {text}
  BY AllTyped, AppendRange
<1>2. /\ t.commands = s.commands /\ t.replies = s.replies /\ t.pending = q /\ t.lit = s.lit
  <2> HIDE DEF Lines
  <2> QED BY <1>1 DEF Hold, States
<1>3. q # << >> /\ q[1] = IF s.pending = << >> THEN text ELSE s.pending[1]
  BY <1>1, FirstIs
<1> HIDE DEF t, q
<1>4. AllLines(t) = AllLines(s) \cup {text}
  BY <1>1, <1>2 DEF AllLines, DoneLines
<1>5. Held(AllLines(t), G, m)
  BY <1>1, <1>4, HeldNext DEF Kept
<1>6. Waiting(p, t)
  <2>1. Waiting(p, s)
    BY DEF Kept, Sorted
  <2>2. CASE s.pending = << >>
    <3>1. text # << >> /\ q[1] = text
      BY <1>3, <2>2
    <3>2. \A i \in DOMAIN s.replies : Begin(s.replies[i][1]) < Begin(text)
      BY <3>1, LaterLine
    <3> QED BY <1>2, <3>1, <3>2 DEF Waiting
  <2>3. CASE s.pending # << >>
    BY <1>2, <1>3, <2>1, <2>3 DEF Waiting
  <2> QED BY <2>2, <2>3
<1> QED BY <1>2, <1>5, <1>6 DEF Kept, Sorted, t

LEMMA FlushKeeps ==
  ASSUME NEW p, p # "imap", NEW s \in States, NEW G, NEW n,
         Kept(p, s, G, n), s.pending # << >>
  PROVE  Kept(p, Reply(s, s.pending), G, n)
<1> DEFINE t == Reply(s, s.pending)
           R == Append(s.replies, s.pending)
<1>1. /\ s.pending \in Seq(Lines) /\ s.replies \in Seq(Seq(Lines))
      /\ LinesIn(R) = LinesIn(s.replies) \cup Range(s.pending)
  BY AllTyped, AppendReplies
<1>2. R \in Seq(Seq(Lines)) /\ << >> \in Seq(Lines)
  <2> HIDE DEF Lines
  <2> QED BY <1>1
<1>3. /\ t.commands = s.commands /\ t.replies = R /\ t.pending = << >> /\ t.lit = s.lit
      /\ t \in States
  <2> HIDE DEF Lines, R
  <2> QED BY <1>2 DEF Reply, States, R
<1>4. RepliesRise(R)
  <2>1. Waiting(p, s) /\ RepliesRise(s.replies)
    BY DEF Kept, Sorted
  <2>2. s.pending[1] # << >> /\ \A i \in DOMAIN s.replies : Begin(s.replies[i][1]) < Begin(s.pending[1])
    BY <2>1 DEF Waiting
  <2> QED BY <1>1, <2>1, <2>2, OneMoreReply
<1> HIDE DEF t, R
<1>5. AllLines(t) = AllLines(s)
  <2>1. DoneLines(t) = Range(s.commands) \cup LinesIn(R)
    BY <1>3, AllTyped
  <2>2. Range(t.pending) = {}
    BY <1>3 DEF Range
  <2> QED BY <1>1, <2>1, <2>2, AllTyped DEF AllLines
<1>6. Waiting(p, t)
  BY <1>3 DEF Waiting
<1> QED BY <1>3, <1>4, <1>5, <1>6 DEF Kept, Sorted, t

LEMMA CloseKeeps ==
  ASSUME NEW p, p # "imap", NEW s \in States, NEW G \in Lines, Shaped(G),
         NEW n \in Nat, NEW m \in Nat, NEW text \in Lines,
         Kept(p, s, G, n), Taken(text, G, n, m), text # << >>
  PROVE  Kept(p, Reply(s, Append(s.pending, text)), G, m)
<1> DEFINE h == Hold(s, text)
           q == Append(s.pending, text)
<1>1. q \in Seq(Lines) /\ q # << >> /\ s.pending \in Seq(Lines)
  BY AllTyped, AppendRange, FirstIs
<1>2. Kept(p, h, G, m)
  BY HoldKeeps
<1>3. h \in States /\ h.pending = q
  <2> HIDE DEF Lines
  <2> QED BY <1>1 DEF Hold, States
<1>4. Reply(h, q).commands = Reply(s, q).commands /\ Reply(h, q).replies = Reply(s, q).replies
      /\ Reply(h, q).pending = Reply(s, q).pending /\ Reply(h, q).lit = Reply(s, q).lit
  <2> HIDE DEF Lines, q
  <2>1. h = [s EXCEPT !.pending = q]
    BY DEF Hold, q
  <2> HIDE DEF h
  <2> QED BY <1>1, <2>1 DEF Reply, States
<1> HIDE DEF h, q
<1>5. Kept(p, Reply(h, q), G, m)
  BY <1>1, <1>2, <1>3, FlushKeeps
<1>6. Kept(p, Reply(s, q), G, m)
  BY <1>4, <1>5, SameKept
<1> QED BY <1>6 DEF q

LEMMA NumberedKeeps ==
  ASSUME NEW p, p # "imap", NEW s \in States, NEW G \in Lines, Shaped(G),
         NEW n \in Nat, NEW m \in Nat, NEW text \in Lines, NEW Final,
         Kept(p, s, G, n), Taken(text, G, n, m)
  PROVE  Kept(p, Numbered(s, text, Final), G, m)
<1>1. CASE text = << >>
  BY <1>1, SkipKeeps DEF Numbered
<1>2. CASE text # << >> /\ Kind(text) \notin {"more", "last", "odd"}
  BY <1>2, CommandKeeps DEF Numbered
<1>3. CASE /\ text # << >> /\ Kind(text) \in {"more", "last", "odd"}
           /\ Kind(text) \in Final
  BY <1>3, CloseKeeps DEF Numbered
<1>4. CASE /\ text # << >> /\ Kind(text) \in {"more", "last", "odd"}
           /\ Kind(text) \notin Final
  BY <1>4, HoldKeeps DEF Numbered
<1> QED BY <1>1, <1>2, <1>3, <1>4

LEMMA PopDataKeeps ==
  ASSUME NEW p, p # "imap", NEW s \in States, NEW G \in Lines, Shaped(G),
         NEW n \in Nat, NEW m \in Nat, NEW text \in Lines,
         Kept(p, s, G, n), Taken(text, G, n, m), s.pending # << >>
  PROVE  Kept(p, PopData(s, text), G, m)
<1>1. CASE text # << >> /\ Kind(text) = "dot"
  BY <1>1, CloseKeeps DEF PopData
<1>2. CASE ~ (text # << >> /\ Kind(text) = "dot")
  <2> DEFINE h == Hold(s, text)
             t == [h EXCEPT !.multi = TRUE]
  <2>1. PopData(s, text) = t
    BY <1>2 DEF PopData
  <2>2. Kept(p, h, G, m)
    BY HoldKeeps
  <2>3. h \in States
    BY HoldAlike
  <2>4. t.commands = h.commands /\ t.replies = h.replies /\ t.pending = h.pending /\ t.lit = h.lit
    <3> HIDE DEF h, Lines
    <3> QED BY <2>3 DEF States
  <2> HIDE DEF h, t
  <2> QED BY <2>1, <2>2, <2>4, SameKept
<1> QED BY <1>1, <1>2

LEMMA FlushedKeeps ==
  ASSUME NEW p, p # "imap", NEW s \in States, NEW G, NEW n, Kept(p, s, G, n)
  PROVE  /\ Kept(p, FlushPending(s), G, n) /\ FlushPending(s) \in States
         /\ FlushPending(s).pending = << >>
<1>1. CASE s.pending = << >>
  BY <1>1 DEF FlushPending
<1>2. CASE s.pending # << >>
  <2>1. FlushPending(s) = Reply(s, s.pending)
    BY <1>2 DEF FlushPending
  <2>2. Append(s.replies, s.pending) \in Seq(Seq(Lines)) /\ << >> \in Seq(Lines)
    <3>1. s.pending \in Seq(Lines) /\ s.replies \in Seq(Seq(Lines))
      BY AllTyped
    <3> HIDE DEF Lines
    <3> QED BY <3>1
  <2>3. Reply(s, s.pending) \in States /\ Reply(s, s.pending).pending = << >>
    <3> HIDE DEF Lines
    <3> QED BY <2>2 DEF Reply, States
  <2> QED BY <1>2, <2>1, <2>3, FlushKeeps
<1> QED BY <1>1, <1>2

LEMMA PopLineKeeps ==
  ASSUME NEW p, p # "imap", NEW s \in States, NEW G \in Lines, Shaped(G),
         NEW n \in Nat, NEW m \in Nat, NEW text \in Lines,
         Kept(p, s, G, n), Taken(text, G, n, m), s.multi => s.pending # << >>
  PROVE  Kept(p, PopLine(s, text), G, m)
<1> DEFINE f == FlushPending(s)
<1>1. Kept(p, f, G, n) /\ f \in States /\ f.pending = << >>
  BY FlushedKeeps
<1> HIDE DEF f
<1>2. CASE s.multi
  BY <1>2, PopDataKeeps DEF PopLine
<1>3. CASE ~ s.multi /\ text # << >> /\ Kind(text) = "last"
  <2>1. PopLine(s, text) = Reply(f, <<text>>)
    BY <1>3 DEF PopLine, f
  <2>2. <<text>> = Append(f.pending, text)
    BY <1>1
  <2>3. Kept(p, Reply(f, Append(f.pending, text)), G, m)
    BY <1>1, <1>3, CloseKeeps
  <2> QED BY <2>1, <2>2, <2>3
<1>4. CASE ~ s.multi /\ text # << >> /\ Kind(text) = "more"
  <2>1. PopLine(s, text) = Hold(f, text)
    BY <1>4 DEF PopLine, f
  <2> QED BY <1>1, <1>4, <2>1, HoldKeeps
<1>5. CASE /\ ~ s.multi /\ ~ (text # << >> /\ Kind(text) \in {"last", "more"})
           /\ s.pending # << >>
  BY <1>5, PopDataKeeps DEF PopLine
<1>6. CASE /\ ~ s.multi /\ ~ (text # << >> /\ Kind(text) \in {"last", "more"})
           /\ s.pending = << >>
  <2>1. PopLine(s, text) = Command(s, text)
    BY <1>6 DEF PopLine
  <2> QED BY <2>1, CommandKeeps
<1> QED BY <1>2, <1>3, <1>4, <1>5, <1>6

-----------------------------------------------------------------------------
(* IMAP: a line that is dispatched, one that announces a literal, and the  *)
(* literal.                                                                *)
LEMMA DispatchKept ==
  ASSUME NEW s \in States, s.lit = 0, NEW line \in Lines, line # << >>, NEW G, NEW m,
         Held(AllLines(s) \cup {line}, G, m), Sorted("imap", s),
         \A l \in DoneLines(s) : l # << >> => Begin(l) < Begin(line),
         \A i \in DOMAIN s.replies : Begin(s.replies[i][1]) < Begin(line)
  PROVE  Kept("imap", Dispatch(s, line), G, m)
<1> DEFINE t == Dispatch(s, line)
           one == <<line>>
           R == Append(s.replies, one)
           C == Append(s.commands, line)
<1>1. /\ s.commands \in Seq(Lines) /\ s.replies \in Seq(Seq(Lines)) /\ one \in Seq(Lines)
      /\ Range(s.commands) \subseteq DoneLines(s)
  <2>1. one \in Seq(Lines)
    <3> HIDE DEF Lines
    <3> QED OBVIOUS
  <2> QED BY <2>1, AllTyped
<1>2. one # << >> /\ one[1] = line /\ Range(one) = {line}
  BY DEF Range
<1> HIDE DEF one
<1>3. R \in Seq(Seq(Lines)) /\ LinesIn(R) = LinesIn(s.replies) \cup {line}
  <2>1. R \in Seq(Seq(Lines))
    <3> HIDE DEF Lines
    <3> QED BY <1>1
  <2> QED BY <2>1, <1>1, <1>2, AppendReplies
<1>4. C \in Seq(Lines) /\ Range(C) = Range(s.commands) \cup {line}
  BY <1>1, AppendRange
<1>5. LinesRise(s.commands) /\ RepliesRise(s.replies) /\ Waiting("imap", s)
  BY DEF Sorted
<1>6. CASE Kind(line) \in {"last", "rlit2"}
  <2>1. /\ t.commands = s.commands /\ t.replies = R /\ t.pending = s.pending
        /\ t.lit = s.lit /\ t \in States
    <3> HIDE DEF Lines, R
    <3>1. t = [s EXCEPT !.replies = R]
      BY <1>6 DEF Dispatch, R, one
    <3> HIDE DEF t
    <3> QED BY <1>3, <3>1 DEF States
  <2> HIDE DEF t, R
  <2>2. AllLines(t) = AllLines(s) \cup {line}
    <3>1. AllLines(t) = (Range(t.commands) \cup LinesIn(t.replies)) \cup Range(t.pending)
      BY <2>1, AllTyped
    <3>2. AllLines(s) = (Range(s.commands) \cup LinesIn(s.replies)) \cup Range(s.pending)
      BY AllTyped
    <3> QED BY <2>1, <1>3, <3>1, <3>2
  <2>3. RepliesRise(R)
    BY <1>1, <1>2, <1>5, OneMoreReply DEF R
  <2>4. Waiting("imap", t)
    BY <2>1, <1>5 DEF Waiting
  <2> QED BY <2>1, <2>2, <2>3, <2>4, <1>5 DEF Kept, Sorted, t
<1>7. CASE Kind(line) \notin {"last", "rlit2"}
  <2>1. /\ t.commands = C /\ t.replies = s.replies /\ t.pending = s.pending
        /\ t.lit = s.lit /\ t \in States
    <3> HIDE DEF Lines, C
    <3>1. t = [s EXCEPT !.commands = C]
      BY <1>7 DEF Dispatch, C, Command
    <3> HIDE DEF t
    <3> QED BY <1>4, <3>1 DEF States
  <2> HIDE DEF t, C
  <2>2. AllLines(t) = AllLines(s) \cup {line}
    <3>1. AllLines(t) = (Range(t.commands) \cup LinesIn(t.replies)) \cup Range(t.pending)
      BY <2>1, AllTyped
    <3>2. AllLines(s) = (Range(s.commands) \cup LinesIn(s.replies)) \cup Range(s.pending)
      BY AllTyped
    <3> QED BY <2>1, <1>4, <3>1, <3>2
  <2>3. LinesRise(C)
    BY <1>1, <1>5, CommandsRise DEF C
  <2>4. Waiting("imap", t)
    BY <2>1, <1>5 DEF Waiting
  <2> QED BY <2>1, <2>2, <2>3, <2>4, <1>5 DEF Kept, Sorted, t
<1> QED BY <1>6, <1>7

LEMMA ImapLineKeeps ==
  ASSUME NEW s \in States, s.lit = 0, NEW G \in Lines, Shaped(G), NEW n \in Nat, NEW m \in Nat,
         NEW text \in Lines, Kept("imap", s, G, n), Taken(text, G, n, m),
         text # << >> /\ text[Len(text)][1] = "lit0" => \A x \in Marks(text) : x[1] = "lit0"
  PROVE  Kept("imap", ImapLine(s, text), G, m)
<1> DEFINE end == text[Len(text)][1]
           one == <<text>>
<1>1. /\ DoneLines(s) \in SUBSET Lines /\ AllLines(s) \in SUBSET Lines
      /\ AllLines(s) = DoneLines(s) \cup Range(s.pending) /\ s.pending \in Seq(Lines)
  BY AllTyped
<1>2. /\ Held(AllLines(s), G, n) /\ Sorted("imap", s) /\ LinesRise(s.commands)
      /\ RepliesRise(s.replies) /\ Waiting("imap", s)
  BY DEF Kept, Sorted
<1>3. Held(DoneLines(s), G, n)
  <2>1. \A l \in AllLines(s) \ DoneLines(s) : \A x \in Marks(l) : x[1] = "lit0"
    BY <1>1, <1>2 DEF Waiting
  <2> QED BY <1>1, <1>2, <2>1, HeldDrop
<1>4. one \in Seq(Lines) /\ one # << >> /\ one[1] = text /\ Range(one) = {text} /\ Len(one) = 1
  <2>1. one \in Seq(Lines)
    <3> HIDE DEF Lines
    <3> QED OBVIOUS
  <2> QED BY <2>1 DEF Range
<1>5. Held(DoneLines(s) \cup {text}, G, m)
  BY <1>1, <1>3, HeldNext
<1> HIDE DEF one
<1>6. CASE text = << >>
  BY <1>6, SkipKeeps DEF ImapLine
<1>7. CASE text # << >> /\ end \in {"lit2", "rlit2"}
  <2> DEFINE t == [s EXCEPT !.lit = 2, !.pending = one]
  <2>1. ImapLine(s, text) = t
    BY <1>7 DEF ImapLine, one
  <2>2. /\ t.commands = s.commands /\ t.replies = s.replies /\ t.pending = one /\ t.lit = 2
        /\ t \in States
    <3> HIDE DEF Lines
    <3> QED BY <1>4 DEF States
  <2> HIDE DEF t
  <2>3. DoneLines(t) = DoneLines(s) /\ AllLines(t) = DoneLines(s) \cup {text}
    BY <2>2, <1>4 DEF AllLines, DoneLines
  <2>4. \A l \in DoneLines(t) : \A x \in Range(l) : x[2] < Begin(text)
    BY <2>3, <1>1, <1>7, LaterLine
  <2>5. \A x \in Range(text) : Begin(text) <= x[2]
    <3>1. Begin(text) = n + 1 /\ \A x \in Range(text) : n < x[2] /\ x[2] \in Nat
      BY <1>7, TakenIs
    <3> QED BY <3>1
  <2>6. Waiting("imap", t)
    BY <2>2, <2>4, <2>5, <1>4, <1>7 DEF Waiting
  <2> QED BY <2>1, <2>2, <2>3, <2>6, <1>2, <1>5 DEF Kept, Sorted
<1>8. CASE text # << >> /\ end = "lit0"
  <2> DEFINE t == [s EXCEPT !.pending = one]
  <2>1. ImapLine(s, text) = t
    BY <1>8 DEF ImapLine, one
  <2>2. /\ t.commands = s.commands /\ t.replies = s.replies /\ t.pending = one /\ t.lit = 0
        /\ t \in States
    <3> HIDE DEF Lines
    <3> QED BY <1>4 DEF States
  <2> HIDE DEF t
  <2>3. DoneLines(t) = DoneLines(s) /\ AllLines(t) = DoneLines(s) \cup {text}
    BY <2>2, <1>4 DEF AllLines, DoneLines
  <2>4. \A l \in Range(t.pending) : \A x \in Marks(l) : x[1] = "lit0"
    BY <2>2, <1>4, <1>8
  <2>5. Waiting("imap", t)
    BY <2>2, <2>4, <1>4, <1>8 DEF Waiting
  <2> QED BY <2>1, <2>2, <2>3, <2>5, <1>2, <1>5 DEF Kept, Sorted
<1>9. CASE text # << >> /\ end \notin {"lit0", "lit2", "rlit2"}
  <2>1. ImapLine(s, text) = Dispatch(s, text)
    BY <1>9 DEF ImapLine
  <2>2. Held(AllLines(s) \cup {text}, G, m)
    BY <1>1, <1>2, HeldNext
  <2>3. /\ \A l \in DoneLines(s) : l # << >> => Begin(l) < Begin(text)
        /\ \A i \in DOMAIN s.replies : Begin(s.replies[i][1]) < Begin(text)
    BY <1>1, <1>9, LaterLine
  <2> QED BY <1>2, <1>9, <2>1, <2>2, <2>3, DispatchKept
<1> QED BY <1>6, <1>7, <1>8, <1>9

LEMMA LiteralKeeps ==
  ASSUME NEW s \in States, s.lit > 0, s.pending # << >>,
         NEW G \in Lines, Shaped(G), NEW n \in Nat, NEW m \in Nat,
         NEW data \in Lines, Kept("imap", s, G, n), Taken(data, G, n, m)
  PROVE  Kept("imap", Dispatch([s EXCEPT !.lit = 0, !.pending = << >>], s.pending[1] \o data),
              G, m)
<1> DEFINE q == s.pending[1]
           line == q \o data
           free == [s EXCEPT !.lit = 0, !.pending = << >>]
<1>1. /\ DoneLines(s) \in SUBSET Lines /\ AllLines(s) = DoneLines(s) \cup Range(s.pending)
      /\ s.pending \in Seq(Lines) /\ s.replies \in Seq(Seq(Lines))
  BY AllTyped
<1>2. Held(AllLines(s), G, n) /\ Sorted("imap", s) /\ Waiting("imap", s)
  BY DEF Kept, Sorted
<1>3. /\ q # << >> /\ Len(s.pending) <= 1
      /\ \A l \in DoneLines(s) : \A x \in Range(l) : x[2] < Begin(q)
      /\ \A x \in Range(q) : Begin(q) <= x[2]
  BY <1>2 DEF Waiting
<1>4. q \in Lines /\ Range(s.pending) = {q}
  <2> DEFINE pend == s.pending
  <2>1. pend \in Seq(Lines) /\ pend # << >> /\ Len(pend) <= 1
    BY <1>1, <1>3
  <2> HIDE DEF Lines, pend
  <2>2. Len(pend) = 1 /\ DOMAIN pend = 1 .. Len(pend)
    <3>1. Len(pend) \in Nat /\ Len(pend) # 0 /\ DOMAIN pend = 1 .. Len(pend)
      BY <2>1
    <3>2. Len(pend) = 1
      BY <2>1, <3>1
    <3> QED BY <3>1, <3>2
  <2>3. DOMAIN pend = {1}
    BY <2>2
  <2>4. pend[1] \in Lines
    BY <2>1, <2>3
  <2> QED BY <2>3, <2>4 DEF pend, Range
<1> HIDE DEF q
<1>5. Held(DoneLines(s) \cup {line}, G, m)
  <2>1. Held(DoneLines(s) \cup {q}, G, n)
    BY <1>1, <1>2, <1>4
  <2> HIDE DEF Lines
  <2> QED BY <2>1, <1>1, <1>3, <1>4, HeldJoin
<1>6. line \in Lines /\ line # << >> /\ Begin(line) = Begin(q)
  <2>1. /\ line \in Lines /\ Len(line) = Len(q) + Len(data)
        /\ Len(q) \in Nat \ {0} /\ Len(data) \in Nat
        /\ \A i \in 1 .. Len(q) : line[i] = q[i]
    BY <1>3, <1>4 DEF Lines
  <2>2. line[1] = q[1] /\ Len(line) # 0
    BY <2>1
  <2>3. line # << >>
    <3> HIDE DEF line
    <3> QED BY <2>2
  <2> QED BY <2>1, <2>2, <2>3 DEF Begin
<1> HIDE DEF line
<1>7. /\ free \in States /\ free.lit = 0 /\ free.pending = << >>
      /\ free.commands = s.commands /\ free.replies = s.replies
  <2>1. << >> \in Seq(Lines)
    OBVIOUS
  <2> HIDE DEF Lines
  <2> QED BY <2>1 DEF States
<1> HIDE DEF free
<1>8. AllLines(free) = DoneLines(s) /\ DoneLines(free) = DoneLines(s)
  BY <1>7 DEF AllLines, DoneLines, Range
<1>9. Sorted("imap", free)
  BY <1>2, <1>7 DEF Sorted, Waiting, Range
<1>10. ASSUME NEW l \in DoneLines(s), l # << >> PROVE Begin(l) < Begin(line)
  <2>1. l \in Lines
    BY <1>1
  <2> QED BY <2>1, <1>3, <1>6, <1>10, BeginIs
<1>11. ASSUME NEW i \in DOMAIN s.replies PROVE Begin(s.replies[i][1]) < Begin(line)
  <2> DEFINE R == s.replies
             r == R[i]
  <2>1. r # << >> /\ r[1] # << >>
    BY <1>2 DEF Sorted, RepliesRise
  <2>2. r \in Seq(Lines)
    <3>1. R \in Seq(Seq(Lines)) /\ i \in DOMAIN R
      BY <1>1
    <3> HIDE DEF R, Lines
    <3> QED BY <3>1
  <2>3. Range(r) \subseteq DoneLines(s)
    BY DEF DoneLines
  <2> HIDE DEF r, R
  <2>4. 1 \in DOMAIN r
    <3> HIDE DEF Lines
    <3> QED BY <2>1, <2>2
  <2>5. r[1] \in DoneLines(s)
    BY <2>3, <2>4 DEF Range
  <2> QED BY <2>1, <2>5, <1>10 DEF r, R
<1>12. Kept("imap", Dispatch(free, line), G, m)
  BY <1>5, <1>6, <1>7, <1>8, <1>9, <1>10, <1>11, DispatchKept
<1> QED BY <1>12 DEF free, line, q

-----------------------------------------------------------------------------
(* What a round takes off the buffer.                                      *)
LEMMA StrippedIs ==
  ASSUME NEW line \in Lines
  PROVE  /\ Stripped(line) \in Lines /\ Len(Stripped(line)) \in Nat
         /\ Len(Stripped(line)) <= Len(line)
         /\ \A i \in 1 .. Len(Stripped(line)) : Stripped(line)[i] = line[i]
         /\ \A i \in Len(Stripped(line)) + 1 .. Len(line) : line[i][1] \in {"cr", "lf"}
<1> DEFINE kept == {i \in DOMAIN line : line[i][1] \notin {"cr", "lf"}}
           k == CHOOSE i \in kept : \A j \in kept : j <= i
<1>1. DOMAIN line = 1 .. Len(line) /\ Len(line) \in Nat
  BY SymbolIs
<1>2. CASE kept = {}
  <2>1. Stripped(line) = << >>
    BY <1>2 DEF Stripped
  <2>2. \A i \in 1 .. Len(line) : line[i][1] \in {"cr", "lf"}
    BY <1>1, <1>2
  <2>3. Stripped(line) \in Lines
    BY StrippedTyped
  <2> HIDE DEF Lines
  <2> QED BY <2>1, <2>2, <2>3, <1>1
<1>3. CASE kept # {}
  <2>1. Stripped(line) = SubSeq(line, 1, k)
    BY <1>3 DEF Stripped
  <2>2. k \in kept /\ \A j \in kept : j <= k
    <3>1. kept \in SUBSET (1 .. Len(line))
      BY <1>1
    <3>2. \E i \in kept : \A j \in kept : j <= i
      <4> HIDE DEF kept
      <4> QED BY <1>1, <1>3, <3>1, GreatestNatural
    <3>3. k \in kept /\ \A j \in kept : j <= k
      <4> HIDE DEF kept
      <4> QED BY <3>2
    <3> QED BY <3>3
  <2>3. k \in 1 .. Len(line)
    BY <2>2, <1>1
  <2>4. ASSUME NEW i \in k + 1 .. Len(line) PROVE line[i][1] \in {"cr", "lf"}
    <3>1. i \in 1 .. Len(line) /\ ~ (i <= k)
      BY <1>1, <2>3
    <3>2. i \notin kept
      <4> HIDE DEF kept, k
      <4> QED BY <2>2, <3>1
    <3> QED BY <1>1, <3>1, <3>2
  <2> HIDE DEF k, kept
  <2>5. /\ Len(SubSeq(line, 1, k)) = k /\ SubSeq(line, 1, k) \in Lines
        /\ \A i \in 1 .. k : SubSeq(line, 1, k)[i] = line[i]
    BY <2>3, <1>1 DEF Lines
  <2> QED BY <2>1, <2>3, <2>4, <2>5, <1>1
<1> QED BY <1>2, <1>3

(* Both halves of a cut.                                                   *)
LEMMA CutIs ==
  ASSUME NEW buf \in Lines, NEW e \in 0 .. Len(buf)
  PROVE  /\ Len(SubSeq(buf, 1, e)) = e /\ Len(SubSeq(buf, e + 1, Len(buf))) = Len(buf) - e
         /\ SubSeq(buf, 1, e) \in Lines /\ SubSeq(buf, e + 1, Len(buf)) \in Lines
         /\ \A i \in 1 .. e : SubSeq(buf, 1, e)[i] = buf[i]
         /\ \A i \in 1 .. Len(buf) - e : SubSeq(buf, e + 1, Len(buf))[i] = buf[e + i]
<1>1. Len(buf) \in Nat /\ e \in Nat /\ e <= Len(buf)
  BY DEF Lines
<1> QED BY <1>1 DEF Lines

LEMMA RestIs ==
  ASSUME NEW buf \in Lines, NEW e \in 0 .. Len(buf), NEW G \in Lines, NEW n \in Nat,
         RestOf(buf, G, n)
  PROVE  /\ RestOf(SubSeq(buf, e + 1, Len(buf)), G, n + e)
         /\ n + e \in Nat /\ n + e <= Len(G)
         /\ Taken(SubSeq(buf, 1, e), G, n, n + e)
         /\ Taken(Stripped(SubSeq(buf, 1, e)), G, n, n + e)
<1> DEFINE front == SubSeq(buf, 1, e)
           rest == SubSeq(buf, e + 1, Len(buf))
           text == Stripped(front)
<1>1. Len(buf) \in Nat /\ e \in Nat /\ e <= Len(buf)
  BY SymbolIs
<1>2. /\ Len(front) = e /\ Len(rest) = Len(buf) - e /\ front \in Lines /\ rest \in Lines
      /\ \A i \in 1 .. e : front[i] = buf[i]
      /\ \A i \in 1 .. Len(buf) - e : rest[i] = buf[e + i]
  BY CutIs
<1>3. Len(G) = n + Len(buf) /\ \A i \in 1 .. Len(buf) : buf[i] = G[n + i]
  BY DEF RestOf
<1> HIDE DEF front, rest
<1>4. /\ text \in Lines /\ Len(text) \in Nat /\ Len(text) <= e
      /\ \A i \in 1 .. Len(text) : text[i] = front[i]
      /\ \A i \in Len(text) + 1 .. e : front[i][1] \in {"cr", "lf"}
  BY <1>2, StrippedIs
<1> HIDE DEF text
<1>5. RestOf(rest, G, n + e)
  <2>1. Len(G) = (n + e) + Len(rest)
    BY <1>1, <1>2, <1>3
  <2>2. ASSUME NEW i \in 1 .. Len(rest) PROVE rest[i] = G[(n + e) + i]
    <3>1. i \in 1 .. Len(buf) - e /\ e + i \in 1 .. Len(buf) /\ n + (e + i) = (n + e) + i
      BY <1>1, <1>2
    <3> QED BY <3>1, <1>2, <1>3
  <2> QED BY <2>1, <2>2 DEF RestOf
<1>6. n + e \in Nat /\ n + e <= Len(G) /\ n <= n + e
  BY <1>1, <1>3
<1>7. ASSUME NEW i \in 1 .. e PROVE front[i] = G[n + i]
  <2>1. i \in 1 .. Len(buf)
    BY <1>1
  <2> QED BY <2>1, <1>2, <1>3
<1>8. Taken(front, G, n, n + e)
  <2>1. n + Len(front) = n + e /\ \A i \in n + Len(front) + 1 .. n + e : FALSE
    BY <1>1, <1>2
  <2> QED BY <2>1, <1>2, <1>6, <1>7 DEF Taken
<1>9. Taken(text, G, n, n + e)
  <2>1. n + Len(text) <= n + e
    BY <1>1, <1>4
  <2>2. ASSUME NEW i \in 1 .. Len(text) PROVE text[i] = G[n + i]
    <3>1. i \in 1 .. e
      BY <1>1, <1>4
    <3> QED BY <3>1, <1>4, <1>7
  <2>3. ASSUME NEW k \in n + Len(text) + 1 .. n + e PROVE G[k][1] \in {"cr", "lf"}
    <3>1. k - n \in Len(text) + 1 .. e /\ k - n \in 1 .. e /\ n + (k - n) = k
      BY <1>1, <1>4
    <3>2. front[k - n] = G[k]
      BY <3>1, <1>7
    <3> QED BY <3>1, <3>2, <1>4
  <2> QED BY <2>1, <2>2, <2>3, <1>6 DEF Taken
<1> QED BY <1>5, <1>6, <1>8, <1>9 DEF front, rest, text

(* A line that ends in {0} has no other content: content comes right after *)
(* the end of a line, and the line has only one end.                       *)
LEMMA OnlyLit ==
  ASSUME NEW buf \in Lines, NEW G \in Lines, Shaped(G), NEW n \in Nat, RestOf(buf, G, n),
         NEW e, e = LineEnd(buf), e # 0, NEW text, text = Stripped(SubSeq(buf, 1, e)),
         text # << >>, text[Len(text)][1] = "lit0"
  PROVE  \A x \in Marks(text) : x[1] = "lit0"
<1> DEFINE k == Len(text)
<1>1. e \in Ends(buf) /\ (\A j \in Ends(buf) : e <= j) /\ e \in 0 .. Len(buf)
      /\ Len(buf) \in Nat
  <2>1. e \in Nat /\ e <= Len(buf)
    BY LineEndIs
  <2>2. Len(buf) \in Nat
    BY SymbolIs
  <2> QED BY <2>1, <2>2, LineEndIs
<1>2. /\ SubSeq(buf, 1, e) \in Lines /\ Len(SubSeq(buf, 1, e)) = e
      /\ Taken(text, G, n, n + e)
  BY <1>1, CutIs, RestIs
<1>3. text \in Lines /\ k \in Nat /\ k <= e /\ k # 0
  <2>1. text \in Lines /\ Len(text) \in Nat /\ Len(text) <= e
    BY <1>2, StrippedIs
  <2>2. Len(text) # 0
    BY <2>1 DEF Lines
  <2> QED BY <2>1, <2>2
<1>4. Len(G) = n + Len(buf) /\ \A i \in 1 .. Len(buf) : buf[i] = G[n + i]
  BY DEF RestOf
<1>5. \A i \in 1 .. k : text[i] = G[n + i]
  BY <1>2 DEF Taken
<1>6. DOMAIN G = 1 .. Len(G)
  BY SymbolIs
<1>7. G[n + k][1] = "lit0" /\ n + k \in DOMAIN G
  <2>1. k \in 1 .. k /\ n + k \in 1 .. Len(G)
    BY <1>1, <1>3, <1>4
  <2> QED BY <2>1, <1>5, <1>6
<1> HIDE DEF k
<1>8. ASSUME NEW i \in 1 .. k, text[i][1] \notin {"cr", "lf"} PROVE i = k
  <2> SUFFICES ASSUME i # k PROVE FALSE
    OBVIOUS
  <2>1. i \in Nat /\ 1 <= i /\ i < k
    BY <1>3, <1>8
  <2> DEFINE c == n + k
  <2> HIDE DEF c
  <2>2. c - 1 \in DOMAIN G /\ G[c - 1][1] = "lf" /\ G[c - 1 - 1][1] = "cr"
    <3>1. c # 1 /\ c - 1 \in 1 .. Len(G)
      BY <1>1, <1>3, <1>4, <2>1 DEF c
    <3>2. G[c][1] = "lit0" /\ c \in DOMAIN G /\ c - 1 \in DOMAIN G
      BY <3>1, <1>6, <1>7 DEF c
    <3>3. "lit0" \notin {"cr", "lf"}
      OBVIOUS
    <3>4. G[c - 1][1] = "lf"
      BY <3>1, <3>2, <3>3 DEF Shaped
    <3>5. G[c - 1 - 1][1] = "cr"
      BY <3>2, <3>4 DEF Shaped
    <3> QED BY <3>2, <3>4, <3>5
  <2>4. i # k - 1
    <3> SUFFICES ASSUME i = k - 1 PROVE FALSE
      OBVIOUS
    <3>1. n + i = c - 1
      BY <1>3, <2>1 DEF c
    <3>2. text[i] = G[n + i]
      BY <1>5
    <3> QED BY <3>1, <3>2, <1>8, <2>2
  <2>5. k - 1 \in 2 .. Len(buf) /\ k - 1 - 1 \in 1 .. Len(buf) /\ k - 1 \in 1 .. Len(buf)
    BY <1>1, <1>3, <2>1, <2>4
  <2>6. buf[k - 1] = G[c - 1] /\ buf[k - 1 - 1] = G[c - 1 - 1]
    <3>1. n + (k - 1) = c - 1 /\ n + (k - 1 - 1) = c - 1 - 1
      BY <1>3 DEF c
    <3> QED BY <3>1, <2>5, <1>4
  <2>7. k - 1 \in Ends(buf)
    BY <2>2, <2>5, <2>6 DEF Ends
  <2>8. e <= k - 1
    BY <1>1, <2>7
  <2> QED BY <2>8, <1>1, <1>3
<1>9. ASSUME NEW x \in Marks(text) PROVE x[1] = "lit0"
  <2>1. x \in Range(text) /\ x[1] \notin {"cr", "lf"}
    BY <1>3, SymbolIs
  <2>2. PICK i \in 1 .. k : x = text[i]
    BY <1>3, <2>1, SymbolIs DEF k
  <2>3. i = k
    BY <1>8, <2>1, <2>2
  <2> QED BY <2>2, <2>3 DEF k
<1> QED BY <1>9

LEMMA LineStepKeeps ==
  ASSUME NEW p \in AllParsers, NEW s \in States, s.lit = 0,
         p = "pop3" /\ s.multi => s.pending # << >>,
         NEW G \in Lines, Shaped(G), NEW n \in Nat, NEW m \in Nat,
         NEW text \in Lines, Kept(p, s, G, n), Taken(text, G, n, m),
         text # << >> /\ text[Len(text)][1] = "lit0" => \A x \in Marks(text) : x[1] = "lit0"
  PROVE  Kept(p, LineStep(p, s, text), G, m)
<1>1. CASE p = "ftp"
  <2>1. Kept(p, Numbered(s, text, {"last", "odd"}), G, m)
    BY <1>1, NumberedKeeps
  <2> QED BY <1>1, <2>1 DEF LineStep
<1>2. CASE p = "smtp"
  <2>1. Kept(p, Numbered(s, text, {"last"}), G, m)
    BY <1>2, NumberedKeeps
  <2> QED BY <1>2, <2>1 DEF LineStep
<1>3. CASE p = "pop3"
  <2>1. Kept(p, PopLine(s, text), G, m)
    BY <1>3, PopLineKeeps
  <2> QED BY <1>3, <2>1 DEF LineStep
<1>4. CASE p = "imap"
  <2>1. Kept("imap", ImapLine(s, text), G, m)
    BY <1>4, ImapLineKeeps
  <2> QED BY <1>4, <2>1 DEF LineStep
<1> QED BY <1>1, <1>2, <1>3, <1>4 DEF AllParsers

-----------------------------------------------------------------------------
(* A round keeps what there is, and so do the loop and a feed.             *)
LEMMA StoredIs ==
  ASSUME NEW p, NEW s, NEW G \in Lines, NEW m \in Nat, m <= Len(G),
         RestOf(s.buffer, G, m), Kept(p, s, G, m)
  PROVE  Stored(p, s, G)
<1>1. m \in 0 .. Len(G)
  BY SymbolIs
<1> QED BY <1>1 DEF Stored, Kept

LEMMA LineRoundStored ==
  ASSUME NEW p \in AllParsers, NEW s, Good(p, s), Framing(p, s), NEW G \in Lines, Shaped(G),
         Stored(p, s, G), Ready(p, s), ~ (p = "imap" /\ s.lit > 0)
  PROVE  Stored(p, Round(p, s), G)
<1> DEFINE buf  == s.buffer
           e    == LineEnd(buf)
           text == Stripped(SubSeq(buf, 1, e))
           rest == SubSeq(buf, e + 1, Len(buf))
           t    == With(s, rest)
<1>1. s \in States /\ buf \in Lines /\ s.lit \in Nat /\ s.lit = 0
  BY GoodTyped DEF Good, LitSound
<1>2. e # 0 /\ e \in 0 .. Len(buf)
  <2>1. e # 0
    BY DEF Ready
  <2>2. e \in Nat /\ e <= Len(buf)
    BY <1>1, LineEndIs
  <2> QED BY <2>1, <2>2, <1>1, SymbolIs
<1>3. Round(p, s) = LineStep(p, t, text) /\ text \in Lines /\ rest \in Lines
  BY <1>1, <1>2, RoundIsLine
<1>4. PICK n \in 0 .. Len(G) : RestOf(buf, G, n) /\ Kept(p, s, G, n)
  BY DEF Stored, Kept
<1>5. n \in Nat
  BY <1>4, SymbolIs
<1>6. /\ RestOf(rest, G, n + e) /\ n + e \in Nat /\ n + e <= Len(G)
      /\ Taken(text, G, n, n + e)
  BY <1>1, <1>2, <1>4, <1>5, RestIs
<1>7. text # << >> /\ text[Len(text)][1] = "lit0" => \A x \in Marks(text) : x[1] = "lit0"
  BY <1>1, <1>2, <1>4, <1>5, OnlyLit
<1>8. /\ t \in States /\ t.buffer = rest /\ t.lit = 0
      /\ t.commands = s.commands /\ t.replies = s.replies /\ t.pending = s.pending
      /\ t.multi = s.multi
  BY <1>1, <1>3, WithIs
<1>9. p = "pop3" /\ t.multi => t.pending # << >>
  BY <1>8 DEF Framing, Begun
<1> HIDE DEF t, text
<1>10. Kept(p, t, G, n)
  BY <1>1, <1>4, <1>8, SameKept
<1> DEFINE m == n + e
           u == LineStep(p, t, text)
<1> HIDE DEF m
<1>11. Kept(p, u, G, m)
  BY <1>3, <1>5, <1>6, <1>7, <1>8, <1>9, <1>10, LineStepKeeps DEF m
<1>12. u.buffer = rest
  <2>1. rest \in Lines
    BY <1>3
  <2> HIDE DEF rest
  <2> QED BY <2>1, <1>3, <1>8, LineStepAlike
<1> HIDE DEF u, rest
<1>13. Stored(p, u, G)
  BY <1>6, <1>11, <1>12, StoredIs DEF m
<1> QED BY <1>3, <1>13 DEF u

LEMMA LiteralRoundStored ==
  ASSUME NEW s, Good("imap", s), NEW G \in Lines, Shaped(G),
         Stored("imap", s, G), Ready("imap", s), s.lit > 0
  PROVE  Stored("imap", Round("imap", s), G)
<1> DEFINE buf  == s.buffer
           e    == s.lit
           data == SubSeq(buf, 1, e)
           text == s.pending[1] \o data
           rest == SubSeq(buf, e + 1, Len(buf))
           free == [s EXCEPT !.lit = 0, !.pending = << >>]
           d    == Dispatch(free, text)
<1>1. s \in States /\ buf \in Lines /\ s.lit \in Nat /\ s.lit <= Len(buf) /\ s.pending # << >>
  BY GoodTyped DEF Good, LitSound, Ready
<1>2. e \in 0 .. Len(buf)
  BY <1>1, SymbolIs
<1>3. /\ Round("imap", s) = Dispatch(With(free, rest), text)
      /\ text \in Lines /\ rest \in Lines /\ free \in States
  BY <1>1, RoundIsLiteral
<1>4. PICK n \in 0 .. Len(G) : RestOf(buf, G, n) /\ Kept("imap", s, G, n)
  BY DEF Stored, Kept
<1>5. n \in Nat
  BY <1>4, SymbolIs
<1>6. /\ RestOf(rest, G, n + e) /\ n + e \in Nat /\ n + e <= Len(G)
      /\ Taken(data, G, n, n + e)
  BY <1>1, <1>2, <1>4, <1>5, RestIs
<1>7. data \in Lines
  BY <1>1, <1>2, CutIs
<1> DEFINE m == n + e
<1> HIDE DEF m, data
<1>8. Kept("imap", d, G, m)
  BY <1>1, <1>4, <1>5, <1>6, <1>7, LiteralKeeps DEF m
<1> HIDE DEF free, text, rest
<1>9. Dispatch(With(free, rest), text) = With(d, rest) /\ d \in States
  BY <1>3, DispatchAlike DEF Alike
<1> HIDE DEF d
<1> DEFINE u == With(d, rest)
<1>10. /\ u.buffer = rest /\ u.lit = d.lit
       /\ u.commands = d.commands /\ u.replies = d.replies /\ u.pending = d.pending
  BY <1>3, <1>9, WithIs
<1> HIDE DEF u
<1>11. Kept("imap", u, G, m)
  BY <1>8, <1>10, SameKept
<1>12. Stored("imap", u, G)
  BY <1>6, <1>10, <1>11, StoredIs DEF m
<1> QED BY <1>3, <1>9, <1>12 DEF u

LEMMA RoundStored ==
  ASSUME NEW p \in AllParsers, NEW s, Good(p, s), Framing(p, s), NEW G \in Lines, Shaped(G),
         Stored(p, s, G)
  PROVE  Stored(p, Round(p, s), G)
<1>1. CASE ~ Ready(p, s)
  BY <1>1, RoundIdle
<1>2. CASE Ready(p, s) /\ ~ (p = "imap" /\ s.lit > 0)
  BY <1>2, LineRoundStored
<1>3. CASE Ready(p, s) /\ p = "imap" /\ s.lit > 0
  BY <1>3, LiteralRoundStored
<1> QED BY <1>1, <1>2, <1>3

LEMMA ProcessStored ==
  ASSUME NEW p \in AllParsers, NEW s, Good(p, s), Framing(p, s), NEW G \in Lines, Shaped(G),
         Stored(p, s, G)
  PROVE  Stored(p, Process(p, s), G)
<1> DEFINE n == Len(s.buffer)
           Ok(u) == Framing(p, u) /\ Stored(p, u, G)
<1>1. n \in Nat
  BY GoodTyped
<1>2. PICK f : Runs(p, s, f, n) /\ Process(p, s) = f[n]
  BY <1>1, ProcessRuns
<1> DEFINE T == {i \in 0 .. n : ~ Ok(f[i])}
<1> HIDE DEF n
<1>3. T = {}
  <2> SUFFICES ASSUME T # {} PROVE FALSE
    OBVIOUS
  <2>1. PICK m \in T : \A j \in T : m <= j
    <3>1. T \in SUBSET Nat
      BY <1>1
    <3> HIDE DEF T
    <3> QED BY <3>1, LeastNatural
  <2>2. f[0] = s /\ \A i \in 0 .. n : i + 1 <= n => f[i + 1] = Round(p, f[i])
    BY <1>1, <1>2, RunsValues
  <2>3. m \in 0 .. n /\ ~ Ok(f[m])
    OBVIOUS
  <2>4. Ok(s)
    OBVIOUS
  <2> HIDE DEF Ok
  <2>5. m - 1 \in 0 .. n /\ (m - 1) + 1 = m /\ m <= n /\ m - 1 \notin T
    <3> HIDE DEF T
    <3> QED BY <1>1, <2>1, <2>2, <2>3, <2>4
  <2>6. Ok(f[m - 1])
    BY <2>5
  <2>7. f[m] = Round(p, f[m - 1])
    BY <2>2, <2>5
  <2>8. Good(p, f[m - 1])
    BY <1>1, <1>2, <2>5, RunsWork DEF Worked
  <2> QED BY <2>3, <2>6, <2>7, <2>8, RoundFrames, RoundStored DEF Ok
<1> QED BY <1>1, <1>2, <1>3

LEMMA JoinedIs ==
  ASSUME NEW a \in Lines, NEW b \in Lines
  PROVE  /\ a \o b \in Lines /\ Len(a \o b) = Len(a) + Len(b)
         /\ Len(a) \in Nat /\ Len(b) \in Nat
         /\ \A i \in 1 .. Len(a) : (a \o b)[i] = a[i]
         /\ \A i \in 1 .. Len(b) : (a \o b)[Len(a) + i] = b[i]
  BY DEF Lines

(* What was fed before stands where it stood when more is fed.             *)
LEMMA FedStored ==
  ASSUME NEW p, NEW s, Good(p, s), NEW G \in Lines, NEW data \in Lines, Stored(p, s, G)
  PROVE  Stored(p, Fed(s, data), G \o data)
<1> DEFINE buf == s.buffer
           both == buf \o data
           all == G \o data
           t == Fed(s, data)
<1>1. s \in States /\ buf \in Lines
  BY GoodTyped DEF Good
<1>2. /\ both \in Lines /\ Len(both) = Len(buf) + Len(data)
      /\ Len(buf) \in Nat /\ Len(data) \in Nat
      /\ \A i \in 1 .. Len(buf) : both[i] = buf[i]
      /\ \A i \in 1 .. Len(data) : both[Len(buf) + i] = data[i]
  BY <1>1, JoinedIs
<1>3. /\ all \in Lines /\ Len(all) = Len(G) + Len(data) /\ Len(G) \in Nat
      /\ \A i \in 1 .. Len(G) : all[i] = G[i]
      /\ \A i \in 1 .. Len(data) : all[Len(G) + i] = data[i]
  BY JoinedIs
<1>4. /\ t.buffer = both /\ t.commands = s.commands /\ t.replies = s.replies
      /\ t.pending = s.pending /\ t.lit = s.lit
  BY <1>1, <1>2, WithIs DEF Fed
<1>5. PICK n \in 0 .. Len(G) : RestOf(buf, G, n) /\ Kept(p, s, G, n)
  BY DEF Stored, Kept
<1>6. n \in Nat /\ n <= Len(G) /\ n <= Len(all)
  BY <1>2, <1>3, <1>5
<1> HIDE DEF both, all, t, buf
<1>7. Len(G) = n + Len(buf) /\ \A i \in 1 .. Len(buf) : buf[i] = G[n + i]
  BY <1>5 DEF RestOf
<1>8. RestOf(both, all, n)
  <2>1. Len(all) = n + Len(both)
    BY <1>2, <1>3, <1>6, <1>7
  <2>2. ASSUME NEW i \in 1 .. Len(both) PROVE both[i] = all[n + i]
    <3>1. CASE i <= Len(buf)
      <4>1. i \in 1 .. Len(buf) /\ n + i \in 1 .. Len(G)
        BY <3>1, <1>2, <1>6, <1>7
      <4> QED BY <4>1, <1>2, <1>3, <1>7
    <3>2. CASE Len(buf) < i
      <4> DEFINE j == i - Len(buf)
      <4>1. j \in 1 .. Len(data) /\ i = Len(buf) + j /\ n + i = Len(G) + j
        BY <3>2, <1>2, <1>6, <1>7
      <4> HIDE DEF j
      <4>2. both[Len(buf) + j] = data[j] /\ all[Len(G) + j] = data[j]
        BY <4>1, <1>2, <1>3
      <4> QED BY <4>1, <4>2
    <3>3. i \in Nat
      BY <1>2
    <3> QED BY <3>1, <3>2, <3>3, <1>2
  <2> QED BY <2>1, <2>2 DEF RestOf
<1>9. Kept(p, s, all, n)
  <2>1. \A k \in 1 .. n : all[k] = G[k]
    BY <1>3, <1>6
  <2> QED BY <2>1, <1>5 DEF Kept, Held
<1>10. Kept(p, t, all, n)
  BY <1>4, <1>9, SameKept
<1>11. Stored(p, t, all)
  BY <1>3, <1>4, <1>6, <1>8, <1>10, StoredIs
<1> QED BY <1>11 DEF t, all

LEMMA FeedStored ==
  ASSUME NEW p \in AllParsers, NEW s, Good(p, s), Framing(p, s), NEW data \in Lines,
         NEW G \in Lines, Shaped(G \o data), Stored(p, s, G)
  PROVE  Stored(p, Feed(p, s, data), G \o data)
<1> DEFINE u == Fed(s, data)
           t == Process(p, u)
           all == G \o data
<1>1. Good(p, u) /\ s \in States /\ s.buffer \in Lines /\ s.buffer \o data \in Lines
  BY FedIs DEF Good
<1>3. Framing(p, u)
  BY <1>1, ShorterFrames DEF Fed
<1>4. Stored(p, u, all) /\ all \in Lines
  BY FedStored, Joined
<1> HIDE DEF u, all
<1>5. Good(p, t) /\ Stored(p, t, all)
  BY <1>1, <1>3, <1>4, ProcessDone, ProcessStored DEF all
<1>6. Feed(p, s, data) = AtEnd(p, t)
  BY FeedIs DEF u
<1> HIDE DEF t
<1>7. CASE p = "pop3"
  <2>1. PICK n \in 0 .. Len(all) : RestOf(t.buffer, all, n) /\ Kept(p, t, all, n)
    BY <1>5 DEF Stored, Kept
  <2>2. n \in Nat /\ n <= Len(all)
    BY <1>4, <2>1, SymbolIs
  <2>3. Kept(p, FlushPending(t), all, n) /\ FlushPending(t).buffer = t.buffer
    <3>1. t \in States /\ t.buffer \in Lines
      BY <1>5, GoodTyped DEF Good
    <3> QED BY <3>1, <1>7, <2>1, FlushedKeeps, FlushAlike DEF Alike
  <2>4. Stored(p, FlushPending(t), all)
    BY <1>4, <2>1, <2>2, <2>3, StoredIs
  <2> QED BY <1>5, <1>6, <2>4 DEF AtEnd, all
<1>8. CASE p # "pop3"
  BY <1>5, <1>6, <1>8 DEF AtEnd, all
<1> QED BY <1>7, <1>8

(* What is stored is not lost.                                             *)
LEMMA StoredKeepsAll ==
  ASSUME Typed, Shaped(got), Stored(parser, st, got)
  PROVE  NothingLost
<1> DEFINE buf == st.buffer
           U == AllLines(st)
<1>1. st \in States /\ buf \in Lines /\ got \in Lines
  BY GoodTyped DEF Typed, Good
<1>2. PICK n \in 0 .. Len(got) : /\ RestOf(buf, got, n) /\ Held(U, got, n)
                                 /\ Sorted(parser, st)
  BY DEF Stored
<1>3. U \in SUBSET Lines
  BY <1>1, AllTyped
<1>4. n \in Nat /\ Len(got) \in Nat /\ Len(buf) \in Nat
  BY <1>1, <1>2, SymbolIs
<1> HIDE DEF buf, U
<1>5. Len(got) = n + Len(buf) /\ \A i \in 1 .. Len(buf) : buf[i] = got[n + i]
  BY <1>2 DEF RestOf
<1>6. Content(st) = {Marks(l) : l \in U \cup {buf}}
  BY DEF Content, U, buf
<1>7. ASSUME NEW x \in Range(got), x[1] \notin {"cr", "lf", "lit0"}
      PROVE  \E t \in Content(st) : x \in t
  <2>1. PICK k \in 1 .. Len(got) : x = got[k]
    BY <1>1, SymbolIs
  <2>2. CASE k <= n
    <3>1. k \in 1 .. n
      BY <1>4, <2>1, <2>2
    <3>2. PICK l \in U : got[k] \in Marks(l)
      BY <1>2, <1>7, <2>1, <3>1 DEF Held
    <3> QED BY <1>6, <2>1, <3>2
  <2>3. CASE n < k
    <3> DEFINE j == k - n
    <3>1. j \in 1 .. Len(buf) /\ k = n + j
      BY <1>4, <1>5, <2>1, <2>3
    <3> HIDE DEF j
    <3>2. x = buf[j] /\ x \in Range(buf)
      BY <1>1, <1>5, <2>1, <3>1, SymbolIs
    <3>3. x \in Marks(buf)
      BY <1>1, <1>7, <3>2, SymbolIs
    <3> QED BY <1>6, <3>3
  <2> QED BY <1>4, <2>1, <2>2, <2>3
<1>8. ASSUME NEW l \in U PROVE Marks(l) \cap Marks(buf) = {}
  <2>1. \A x \in Range(l) : x[2] <= n
    BY <1>2 DEF Held
  <2>2. ASSUME NEW x \in Range(buf) PROVE n < x[2] /\ x[2] \in Nat
    <3>1. PICK i \in 1 .. Len(buf) : x = buf[i]
      BY <1>1, SymbolIs
    <3>2. n + i \in 1 .. Len(got) /\ n < n + i /\ n + i \in Nat
      BY <1>4, <1>5, <3>1
    <3>3. got[n + i][2] = n + i
      BY <1>1, <3>2, SymbolIs DEF Shaped
    <3> QED BY <1>5, <3>1, <3>2, <3>3
  <2>3. Marks(l) \subseteq Range(l) /\ Marks(buf) \subseteq Range(buf)
    BY <1>1, <1>3, SymbolIs
  <2>4. \A x \in Range(l) : x[2] \in Nat
    BY <1>3, SymbolIs
  <2> QED BY <1>4, <2>1, <2>2, <2>3, <2>4
<1>9. \A t, u \in Content(st) : t # u => t \cap u = {}
  <2>1. \A l, m \in U : Marks(l) # Marks(m) => Marks(l) \cap Marks(m) = {}
    BY <1>2 DEF Held
  <2> QED BY <1>6, <1>8, <2>1
<1>10. LinesRise(st.commands) /\ RepliesRise(st.replies)
  BY <1>2 DEF Sorted
<1> QED BY <1>7, <1>9, <1>10 DEF NothingLost, LinesRise, RepliesRise, Begin

LEMMA PrefixShaped ==
  ASSUME NEW a \in Lines, NEW b \in Lines, Shaped(a \o b)
  PROVE  Shaped(a)
<1> DEFINE c == a \o b
<1>1. /\ c \in Lines /\ Len(c) = Len(a) + Len(b) /\ Len(a) \in Nat /\ Len(b) \in Nat
      /\ \A i \in 1 .. Len(a) : c[i] = a[i]
  BY JoinedIs
<1> HIDE DEF c
<1>2. DOMAIN a = 1 .. Len(a) /\ DOMAIN c = 1 .. Len(c)
  BY <1>1, SymbolIs
<1>3. Shaped(c)
  BY DEF c
<1>4. ASSUME NEW i \in DOMAIN a
      PROVE  /\ a[i][2] = i
             /\ a[i][1] = "lf" => i - 1 \in DOMAIN a /\ a[i - 1][1] = "cr"
             /\ a[i][1] \notin {"cr", "lf"} /\ i # 1 => a[i - 1][1] = "lf"
  <2>1. i \in DOMAIN c /\ c[i] = a[i]
    BY <1>1, <1>2
  <2>2. /\ c[i][2] = i
        /\ c[i][1] = "lf" => i - 1 \in DOMAIN c /\ c[i - 1][1] = "cr"
        /\ c[i][1] \notin {"cr", "lf"} /\ i # 1 => c[i - 1][1] = "lf"
    BY <1>3, <2>1 DEF Shaped
  <2>3. i - 1 \in DOMAIN c => i - 1 \in DOMAIN a
    BY <1>1, <1>2
  <2>4. i # 1 => i - 1 \in DOMAIN a
    BY <1>2
  <2>5. i - 1 \in DOMAIN a => c[i - 1] = a[i - 1]
    BY <1>1, <1>2
  <2> QED BY <2>1, <2>2, <2>3, <2>4, <2>5
<1> QED BY <1>4 DEF Shaped

(* A byte arrives where the stream ends, in the place its kind may have.   *)
LEMMA LongerShaped ==
  ASSUME NEW a \in Lines, Shaped(a), NEW x \in Symbols, x[2] = Len(a) + 1,
         x[1] = "lf" => a # << >> /\ a[Len(a)][1] = "cr",
         x[1] \notin {"cr", "lf"} => a = << >> \/ a[Len(a)][1] = "lf"
  PROVE  Shaped(Append(a, x)) /\ Append(a, x) \in Lines
<1> DEFINE c == Append(a, x)
           n == Len(a)
<1>1. /\ c \in Lines /\ n \in Nat /\ DOMAIN c = 1 .. n + 1 /\ DOMAIN a = 1 .. n
      /\ \A i \in 1 .. n : c[i] = a[i]
      /\ c[n + 1] = x
      /\ a = << >> <=> n = 0
  BY DEF Lines
<1> HIDE DEF c, n
<1>2. /\ x[1] = "lf" => n # 0 /\ a[n][1] = "cr"
      /\ x[1] \notin {"cr", "lf"} /\ n # 0 => a[n][1] = "lf"
      /\ x[2] = n + 1
  BY <1>1 DEF n
<1>3. ASSUME NEW i \in DOMAIN c
      PROVE  /\ c[i][2] = i
             /\ c[i][1] = "lf" => i - 1 \in DOMAIN c /\ c[i - 1][1] = "cr"
             /\ c[i][1] \notin {"cr", "lf"} /\ i # 1 => c[i - 1][1] = "lf"
  <2>1. CASE i = n + 1
    <3>1. c[i] = x /\ i - 1 = n
      BY <1>1, <2>1
    <3>2. n # 0 => n \in DOMAIN c /\ c[n] = a[n]
      BY <1>1
    <3> QED BY <3>1, <3>2, <2>1, <1>1, <1>2
  <2>2. CASE i # n + 1
    <3>1. i \in DOMAIN a /\ c[i] = a[i]
      BY <1>1, <2>2
    <3>2. /\ a[i][2] = i
          /\ a[i][1] = "lf" => i - 1 \in DOMAIN a /\ a[i - 1][1] = "cr"
          /\ a[i][1] \notin {"cr", "lf"} /\ i # 1 => a[i - 1][1] = "lf"
      BY <3>1 DEF Shaped
    <3>3. i # 1 => i - 1 \in DOMAIN a
      BY <1>1, <3>1
    <3>4. i - 1 \in DOMAIN a => i - 1 \in DOMAIN c /\ c[i - 1] = a[i - 1]
      BY <1>1
    <3> QED BY <3>1, <3>2, <3>3, <3>4
  <2> QED BY <2>1, <2>2
<1> QED BY <1>1, <1>3 DEF Shaped, c

(* Between two feeds everything fed is stored.                             *)
StoringInv == FramingInv /\ Stored(parser, st, got) /\ Shaped(got \o segment)

LEMMA StoringInit == Init => StoringInv
<1> SUFFICES ASSUME Init PROVE StoringInv
  OBVIOUS
<1>1. FramingInv
  BY FramesInit
<1>2. st = New /\ got = << >> /\ segment = << >>
  BY DEF Init
<1>3. << >> \in Lines /\ << >> \o << >> = << >> /\ Len(<< >>) = 0
  BY DEF Lines
<1>4. Shaped(<< >>)
  BY DEF Shaped
<1>5. AllLines(New) = {}
  BY DEF AllLines, DoneLines, New, Range
<1>6. Held({}, << >>, 0) /\ RestOf(<< >>, << >>, 0)
  BY DEF Held, RestOf
<1>7. Sorted(parser, New)
  <2>1. << >> # << >> => FALSE
    OBVIOUS
  <2>2. Len(<< >>) <= 1 /\ DOMAIN << >> = {} /\ Range(<< >>) = {}
    BY DEF Range
  <2>3. New.commands = << >> /\ New.replies = << >> /\ New.pending = << >> /\ New.lit = 0
    BY DEF New
  <2> QED BY <2>2, <2>3 DEF Sorted, LinesRise, RepliesRise, Waiting
<1>8. New.buffer = << >>
  BY DEF New
<1>9. Stored(parser, New, << >>)
  BY <1>3, <1>5, <1>6, <1>7, <1>8, StoredIs DEF Kept
<1> QED BY <1>1, <1>2, <1>3, <1>4, <1>9 DEF StoringInv

LEMMA StoringStep == StoringInv /\ [Next]_vars => StoringInv'
<1> SUFFICES ASSUME StoringInv, [Next]_vars PROVE StoringInv'
  OBVIOUS
<1>1. FramingInv'
  BY FramesStep DEF StoringInv
<1>2. /\ parser \in AllParsers /\ Good(parser, st) /\ segment \in Lines /\ got \in Lines
      /\ Framing(parser, st)
      /\ Stored(parser, st, got) /\ Shaped(got \o segment)
  BY DEF StoringInv, FramingInv, Typed
<1>3. CASE Deliver
  <2>1. Stored(parser, Feed(parser, st, segment), got \o segment)
    BY <1>2, FeedStored
  <2>2. (got \o segment) \o << >> = got \o segment
    <3> DEFINE all == got \o segment
    <3>1. all \in Lines
      BY <1>2, Joined
    <3> HIDE DEF all
    <3>2. all \o << >> = all
      BY <3>1 DEF Lines
    <3> QED BY <3>2 DEF all
  <2>3. /\ st' = Feed(parser, st, segment) /\ got' = got \o segment /\ segment' = << >>
        /\ parser' = parser
    BY <1>3 DEF Deliver
  <2> QED BY <1>1, <1>2, <2>1, <2>2, <2>3 DEF StoringInv
<1>4. ASSUME NEW k \in Kinds[parser] \cup {"cr", "lf"}, Arrive(k)
      PROVE  StoringInv'
  <2> DEFINE sofar == got \o segment
             n == Len(sofar) + 1
             x == <<k, n>>
  <2>1. sofar \in Lines /\ Shaped(sofar) /\ Len(sofar) \in Nat
    BY <1>2, JoinedIs, Joined
  <2>2. x \in Symbols /\ x[1] = k /\ x[2] = n
    <3>1. k \in AllKinds
      <4>1. Kinds[parser] \subseteq AllKinds
        BY <1>2 DEF Kinds, AllKinds, AllParsers
      <4> QED BY <4>1, <1>4 DEF AllKinds
    <3>2. n \in Nat
      <4> HIDE DEF sofar
      <4> QED BY <2>1
    <3> HIDE DEF n
    <3> QED BY <3>1, <3>2 DEF Symbols
  <2>3. /\ segment' = Append(segment, x) /\ UNCHANGED <<parser, st, got>>
        /\ k = "lf" <=> (IF sofar = << >> THEN "lf" ELSE sofar[Len(sofar)][1]) = "cr"
        /\ k \in Kinds[parser] => (IF sofar = << >> THEN "lf" ELSE sofar[Len(sofar)][1]) = "lf"
    BY <1>4 DEF Arrive
  <2>4. got \o Append(segment, x) = Append(sofar, x)
    <3> HIDE DEF x
    <3> QED BY <1>2, <2>2 DEF Lines
  <2> HIDE DEF sofar
  <2>5. k = "lf" => sofar # << >> /\ sofar[Len(sofar)][1] = "cr"
    BY <2>3
  <2>6. k \notin {"cr", "lf"} => sofar = << >> \/ sofar[Len(sofar)][1] = "lf"
    BY <1>4, <2>3
  <2> HIDE DEF x
  <2>7. x[2] = Len(sofar) + 1
    BY <2>2
  <2>8. Shaped(Append(sofar, x))
    BY <2>1, <2>2, <2>5, <2>6, <2>7, LongerShaped
  <2> QED BY <1>1, <1>2, <2>3, <2>4, <2>8 DEF StoringInv
<1>5. CASE UNCHANGED vars
  BY <1>1, <1>2, <1>5 DEF vars, StoringInv
<1> QED BY <1>3, <1>4, <1>5 DEF Next

(* Whatever the stream and however it is cut, the parsers of ftp.py,       *)
(* smtp.py, pop3.py and imap.py lose no byte of it: what is not the end of *)
(* a line is in a command, in a reply, in the reply begun or in the        *)
(* buffer, lines that differ share none, and commands and replies are      *)
(* reported in the order in which they came, none of them twice.           *)
THEOREM EveryLineKept == Spec => []NothingLost
<1>1. StoringInv => NothingLost
  <2> SUFFICES ASSUME StoringInv PROVE NothingLost
    OBVIOUS
  <2>1. Typed /\ got \in Lines /\ segment \in Lines /\ Stored(parser, st, got)
    BY DEF StoringInv, FramingInv, Typed
  <2>2. Shaped(got)
    BY <2>1, PrefixShaped DEF StoringInv
  <2> QED BY <2>1, <2>2, StoredKeepsAll
<1> QED BY <1>1, StoringInit, StoringStep, PTL DEF Spec
=============================================================================
