----------------------------- MODULE LineParsers -----------------------------
(***************************************************************************)
(* The parsers that are fed a reassembled stream piece by piece and split  *)
(* it into commands and replies: FTPControlParser of dpkt/ftp.py, SMTP of  *)
(* smtp.py, POP3 of pop3.py and IMAPStreamParser of imap.py.               *)
(*                                                                         *)
(* A stream is a sequence of symbols <<kind, position>>.  The content of a *)
(* line is one symbol or none, its end the two symbols cr and lf, which a  *)
(* cut may separate:                                                       *)
(*   more   a reply that another line may follow: 250-..., +OK ...         *)
(*   last   a reply complete in its line: 250 ..., -ERR ..., * ...         *)
(*   odd    three digits and neither space nor dash                        *)
(*   dot    a line with a dot only                                         *)
(*   lit0, lit2   a command that ends in {0} or {2}: a literal of so many  *)
(*          bytes follows its end                                          *)
(*   rlit2  such a line of a reply: * 1 FETCH (BODY {2}                    *)
(*   text   any other line                                                 *)
(***************************************************************************)
EXTENDS Naturals, Sequences, Functions

CONSTANTS Parsers,     \* the parsers that are run
          MaxSymbols   \* bound: length of the stream

ASSUME LinesAssumption ==
  Parsers \subseteq {"ftp", "smtp", "pop3", "imap"} /\ MaxSymbols \in Nat

Kinds == [ftp  |-> {"text", "more", "last", "odd"},
          smtp |-> {"text", "more", "last", "odd"},
          pop3 |-> {"text", "more", "last", "dot"},
          imap |-> {"text", "last", "lit0", "lit2", "rlit2"}]

VARIABLES parser,   \* which parser this is
          st,       \* its attributes
          segment,  \* the bytes captured since the last feed
          got,      \* all bytes fed
          flushed   \* whether a feed before the last one ended with a flush

vars == <<parser, st, segment, got, flushed>>

(* commands, replies: sequences of lines, of sequences of lines; buffer;   *)
(* pending: the lines of a reply begun; multi: _in_multiline; lit:         *)
(* _lit_pending.                                                           *)
New == [commands |-> << >>, replies |-> << >>, buffer |-> << >>,
        pending |-> << >>, multi |-> FALSE, lit |-> 0]
-----------------------------------------------------------------------------
(* Where the first line of the buffer ends, 0 if it is not complete.       *)
LineEnd(buf) ==
  LET ends == {i \in 2 .. Len(buf) : buf[i - 1][1] = "cr" /\ buf[i][1] = "lf"}
  IN  IF ends = {} THEN 0 ELSE CHOOSE i \in ends : \A j \in ends : i <= j

(* line.rstrip(b'\r\n') *)
Stripped(line) ==
  LET kept == {i \in DOMAIN line : line[i][1] \notin {"cr", "lf"}}
  IN  IF kept = {} THEN << >> ELSE SubSeq(line, 1, CHOOSE i \in kept : \A j \in kept : j <= i)

Kind(text) == text[1][1]
Command(s, line) == [s EXCEPT !.commands = Append(@, line)]
(* Variant: what was pending stays.                                        *)
ReplyKeeping(s, lines) == [s EXCEPT !.replies = Append(@, lines), !.multi = FALSE]
Reply(s, lines)  == [s EXCEPT !.replies = Append(@, lines), !.pending = << >>, !.multi = FALSE]
Hold(s, line)    == [s EXCEPT !.pending = Append(@, line)]

(* Variant: a command gives up the reply begun before it.                  *)
NumberedForgetful(s, text, Final) ==
  IF text = << >> THEN s
  ELSE IF Kind(text) \notin {"more", "last", "odd"} THEN [Command(s, text) EXCEPT !.pending = << >>]
  ELSE IF Kind(text) \in Final THEN Reply(s, Append(s.pending, text))
  ELSE Hold(s, text)

(* FTPControlParser._dispatch_line and the loop body of SMTP._process: they *)
(* differ in what ends a reply.                                            *)
Numbered(s, text, Final) ==
  IF text = << >> THEN s
  ELSE IF Kind(text) \notin {"more", "last", "odd"} THEN Command(s, text)
  ELSE IF Kind(text) \in Final THEN Reply(s, Append(s.pending, text))
  ELSE Hold(s, text)

(* POP3: a reply that may have more lines waits for what comes next.       *)
FlushPending(s) == IF s.pending = << >> THEN s ELSE Reply(s, s.pending)
PopData(s, text) ==
  IF text # << >> /\ Kind(text) = "dot" THEN Reply(s, Append(s.pending, text))
  ELSE [Hold(s, text) EXCEPT !.multi = TRUE]

(* Variant: the end of the reply is only looked for from the second line on.*)
PopLineUnended(s, text) ==
  IF s.multi THEN PopData(s, text)
  ELSE IF text # << >> /\ Kind(text) = "last" THEN Reply(FlushPending(s), <<text>>)
  ELSE IF text # << >> /\ Kind(text) = "more" THEN Hold(FlushPending(s), text)
  ELSE IF s.pending # << >> THEN [Hold(s, text) EXCEPT !.multi = TRUE]
  ELSE Command(s, text)

PopLine(s, text) ==
  IF s.multi THEN PopData(s, text)
  ELSE IF text # << >> /\ Kind(text) = "last" THEN Reply(FlushPending(s), <<text>>)
  ELSE IF text # << >> /\ Kind(text) = "more" THEN Hold(FlushPending(s), text)
  ELSE IF s.pending # << >> THEN PopData(s, text)
  ELSE Command(s, text)

(* IMAPStreamParser._dispatch_line, and a line of its _process: one that   *)
(* announces a literal is kept until the literal is there.  A literal of   *)
(* no bytes is not waited for, and its line is not looked at again.        *)
Dispatch(s, line) ==
  IF Kind(line) \in {"last", "rlit2"} THEN [s EXCEPT !.replies = Append(@, <<line>>)]
  ELSE Command(s, line)
(* Variant: a literal is only waited for behind a command.                 *)
ImapLineOfCommands(s, text) ==
  IF text = << >> THEN s
  ELSE LET end == text[Len(text)][1]
       IN  IF end = "lit2" THEN [s EXCEPT !.lit = 2, !.pending = <<text>>]
           ELSE IF end = "lit0" THEN [s EXCEPT !.pending = <<text>>]
           ELSE Dispatch(s, text)

ImapLine(s, text) ==
  IF text = << >> THEN s
  ELSE LET end == text[Len(text)][1]
       IN  IF end \in {"lit2", "rlit2"} THEN [s EXCEPT !.lit = 2, !.pending = <<text>>]
           ELSE IF end = "lit0" THEN [s EXCEPT !.pending = <<text>>]
           ELSE Dispatch(s, text)

(* Variant: the literal is what there is of it.                            *)
ImapLiteralHasty(s) ==
  LET n == IF Len(s.buffer) < s.lit THEN Len(s.buffer) ELSE s.lit
  IN  Dispatch([s EXCEPT !.buffer = SubSeq(@, n + 1, Len(@)), !.lit = 0, !.pending = << >>],
               s.pending[1] \o SubSeq(s.buffer, 1, n))

ImapLiteral(s) ==
  IF Len(s.buffer) < s.lit THEN s
  ELSE Dispatch([s EXCEPT !.buffer = SubSeq(@, s.lit + 1, Len(@)), !.lit = 0, !.pending = << >>],
                s.pending[1] \o SubSeq(s.buffer, 1, s.lit))

(* One round of the loop of _process_buffer or _process.                   *)
Round(p, s) ==
  LET end  == LineEnd(s.buffer)
      text == Stripped(SubSeq(s.buffer, 1, end))
      rest == [s EXCEPT !.buffer = SubSeq(@, end + 1, Len(@))]
  IN  IF p = "imap" /\ s.lit > 0 THEN ImapLiteral(s)
      ELSE IF end = 0 THEN s
      ELSE CASE p = "ftp"  -> Numbered(rest, text, {"last", "odd"})
             [] p = "smtp" -> Numbered(rest, text, {"last"})
             [] p = "pop3" -> PopLine(rest, text)
             [] p = "imap" -> ImapLine(rest, text)

(* The loop: a round that changes anything takes a symbol off the buffer,  *)
(* so there are no more of them than symbols.                              *)
Process(p, s) ==
  LET after[i \in 0 .. Len(s.buffer)] ==
        IF i = 0 THEN s ELSE Round(p, after[i - 1])
  IN  after[Len(s.buffer)]

(* POP3._process at the end of a feed: what is pending is taken for a      *)
(* reply of one line if nothing came after it.                             *)
Flushes(s) == s.pending # << >> /\ ~ s.multi /\ s.buffer = << >>
AtEnd(p, s) == IF p = "pop3" /\ Flushes(s) THEN FlushPending(s) ELSE s

Feed(p, s, data) == AtEnd(p, Process(p, [s EXCEPT !.buffer = @ \o data]))
-----------------------------------------------------------------------------
Init == /\ parser \in Parsers
        /\ st = New
        /\ segment = << >> /\ got = << >>
        /\ flushed = FALSE

(* Another byte of the stream is captured.  Lines end in cr lf.            *)
Arrive(k) ==
  LET sofar == got \o segment
      prev  == IF sofar = << >> THEN "lf" ELSE sofar[Len(sofar)][1]
  IN  /\ Len(sofar) < MaxSymbols
      /\ k = "lf" <=> prev = "cr"
      /\ k \in Kinds[parser] => prev = "lf"
      /\ segment' = Append(segment, <<k, Len(sofar) + 1>>)
      /\ UNCHANGED <<parser, st, got, flushed>>

(* The owner feeds what was captured.                                      *)
Deliver ==
  /\ segment # << >>
  /\ st' = Feed(parser, st, segment)
  /\ got' = got \o segment
  /\ segment' = << >>
  /\ flushed' = (flushed \/ (parser = "pop3" /\ got # << >> /\ Flushes(Process(parser, [New EXCEPT !.buffer = got]))))
  /\ UNCHANGED parser

Next == Deliver \/ \E k \in Kinds[parser] \cup {"cr", "lf"} : Arrive(k)

Spec == Init /\ [][Next]_vars
-----------------------------------------------------------------------------
Whole == Feed(parser, New, got)

(* How a stream is cut into segments makes no difference: after each feed  *)
(* the parser is as if it had been fed everything at once.  POP3 is, as    *)
(* long as no cut comes right after a "+OK ..." line.                      *)
CutFree == ~ flushed => st = Whole

(* The symbols of a line that are not the end of one, and the lines that a *)
(* parser has: those of commands, replies and the reply begun.             *)
Marks(line) == {line[i] : i \in {j \in DOMAIN line : line[j][1] \notin {"cr", "lf"}}}
DoneLines(s) == Range(s.commands) \cup UNION {Range(s.replies[i]) : i \in DOMAIN s.replies}
AllLines(s) == DoneLines(s) \cup Range(s.pending)
Content(s) == {Marks(line) : line \in AllLines(s) \cup {s.buffer}}

(* Every byte fed that is not the end of a line is in a command, in a      *)
(* reply, in the reply begun or in the buffer, except for IMAP lines that  *)
(* end in {0}, which are dropped; lines that differ share no byte; and     *)
(* commands and replies are in the order in which they came, none twice.   *)
NothingLost ==
  LET Rises(lines) == \A i, j \in DOMAIN lines :
        i < j /\ lines[i] # << >> /\ lines[j] # << >> => lines[i][1][2] < lines[j][1][2]
  IN  /\ \A x \in Range(got) :
           x[1] \notin {"cr", "lf", "lit0"} => \E t \in Content(st) : x \in t
      /\ \A t, u \in Content(st) : t # u => t \cap u = {}
      /\ Rises(st.commands)
      /\ Rises([i \in DOMAIN st.replies |-> st.replies[i][1]])

(* An ftp or smtp reply ends with its last line and not before it.         *)
EndKinds(p) == IF p = "ftp" THEN {"last", "odd"} ELSE {"last"}
EndedOnce ==
  parser \in {"ftp", "smtp"} =>
    \A i \in DOMAIN st.replies :
      LET r == st.replies[i]
          Ends(j) == r[j] # << >> /\ Kind(r[j]) \in EndKinds(parser)
      IN  \A j \in DOMAIN r : Ends(j) <=> j = Len(r)

(* And it has every line with a code that came after the reply before it   *)
(* and up to its last one, whatever came in between; lines without a code, *)
(* those in the middle of a reply too, are taken for commands, and only    *)
(* they are.                                                               *)
NumberedFramed ==
  LET codes == {"more", "last", "odd"}
      At(i) == {st.replies[i][j][1][2] : j \in DOMAIN st.replies[i]}
  IN  /\ EndedOnce
      /\ parser \in {"ftp", "smtp"} =>
           /\ \A i \in DOMAIN st.replies : \A x \in Range(got) :
                x[2] \in At(i) <=> /\ x[1] \in codes
                                   /\ \E b \in At(i) : x[2] <= b
                                   /\ \A h \in 1 .. i - 1 : \A a \in At(h) : a < x[2]
           /\ \A i \in DOMAIN st.commands : Kind(st.commands[i]) \notin codes

(* A pop3 reply that more lines may follow is one line only if no line of  *)
(* data came behind it; else it goes on to the first line with a dot.  The *)
(* end of a feed, where the last reply is given as it is, must not show.   *)
WholeReplies ==
  parser = "pop3" =>
    \A i \in DOMAIN st.replies :
      LET r == st.replies[i]
          next == r[1][1][2] + 3
      IN  IF Len(r) = 1
          THEN Kind(r[1]) = "more" /\ next <= Len(got) => got[next][1] \in {"more", "last"}
          ELSE /\ Kind(r[1]) = "more"
               /\ \A j \in DOMAIN r : r[j] = << >> \/ Kind(r[j]) # "dot" <=> j < Len(r)

(* What the code does of that: pop3 replies are whole as long as no feed   *)
(* before the last ended right after the first line of one.                *)
PopFramed == ~ flushed => WholeReplies

(* An imap message is one line, with a literal that line announces: the    *)
(* two bytes behind its end and no others.  A line may begin with the lf   *)
(* of a pair that a literal before it broke.                               *)
LiteralsWhole ==
  LET Literal(line) ==
        LET k == IF Kind(line) = "lf" THEN 2 ELSE 1
        IN  IF line[k][1] \in {"lit2", "rlit2"}
            THEN /\ Len(line) = k + 2
                 /\ \A i \in 1 .. 2 : line[k + i][2] = line[k][2] + 2 + i
            ELSE Len(line) = k
  IN  parser = "imap" =>
        /\ \A i \in DOMAIN st.commands :
             Literal(st.commands[i]) /\ Kind(st.commands[i]) \notin {"last", "rlit2"}
        /\ \A i \in DOMAIN st.replies :
             /\ Len(st.replies[i]) = 1 /\ Literal(st.replies[i][1])
             /\ Kind(st.replies[i][1]) \in {"last", "rlit2"}
==============================================================================
