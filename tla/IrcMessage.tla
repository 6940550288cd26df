----------------------------- MODULE IrcMessage -----------------------------
(***************************************************************************)
(* Finding and taking apart one message in a buffer (ircmessage.c).  A     *)
(* byte is "cr", "lf", "sp", "col", a digit or any other value, and there  *)
(* is no NUL byte.  A message has a prefix, a command and parameters, all  *)
(* sequences of bytes; the prefix is NoPrefix if there is none.  A command *)
(* is also a number (irccommand.c): that of a reply or, for a word, one    *)
(* from 100 to 199.  Two words and two replies stand for the whole table.  *)
(*                                                                         *)
(* Format, the other direction, is what an IRC network sends for a         *)
(* message; nothing in the code does it.                                   *)
(***************************************************************************)
EXTENDS Integers, Sequences, SequencesExt, FiniteSetsExt

NoPrefix == <<"null">>

CMD_UNKNOWN == 0

(* The numbers and texts of RPL_MYINFO, ERR_NOSUCHCHANNEL, MSG_JOIN and    *)
(* MSG_PING, the words shortened to their first byte.                      *)
IrcCommand_str ==
    [n \in {4, 403, 108, 133} |-> CASE n = 4 -> <<"0", "0", "4">>
                                   [] n = 403 -> <<"4", "0", "3">>
                                   [] n = 108 -> <<"J">>
                                   [] n = 133 -> <<"P">>]

Digits == <<"0", "1", "2", "3", "4", "5", "6", "7", "8", "9">>
Value(digit) == (CHOOSE i \in DOMAIN Digits : Digits[i] = digit) - 1

IsNumeric(text) == Len(text) = 3 /\ \A i \in 1..3 : text[i] \in Range(Digits)

(* The numbers from 100 to 199 are not sent as numbers.                    *)
IsReply(n) == ~(n > 99 /\ n < 200) /\ n \in DOMAIN IrcCommand_str

IrcCommand_parse(text) ==
    IF IsNumeric(text)
    THEN LET n == 100 * Value(text[1]) + 10 * Value(text[2]) + Value(text[3])
         IN  IF IsReply(n) THEN n ELSE CMD_UNKNOWN
    ELSE IF \E n \in DOMAIN IrcCommand_str : IrcCommand_str[n] = text
         THEN CHOOSE n \in DOMAIN IrcCommand_str : IrcCommand_str[n] = text
         ELSE CMD_UNKNOWN

(* Where strcspn, strsep or a loop over bytes stops: at the first b in     *)
(* s[from..], or after the end.                                            *)
IndexOf(s, from, b) ==
    Min({i \in from..Len(s) : s[i] = b} \cup {Len(s) + 1})

(* endpos: where the line that starts at pos ends, 0 if it is not complete.*)
EndOfLine(buf, pos) ==
    LET ends == {i \in pos..Len(buf) - 1 : buf[i] = "cr" /\ buf[i + 1] = "lf"}
    IN  IF ends = {} THEN 0 ELSE Min(ends)

(* mutant: a colon in the middle of a word starts the last parameter *)
ParamsFromColonAnywhere(s) ==
    LET at[p \in 1..Len(s) + 1] ==
          LET c == IndexOf(s, p, "col")
              e == IndexOf(s, p, "sp")
          IN  IF c <= Len(s) /\ c < e THEN <<SubSeq(s, c + 1, Len(s))>>
              ELSE <<SubSeq(s, p, e - 1)>>
                     \o (IF e <= Len(s) THEN at[e + 1] ELSE <<>>)
    IN  at[1]

(* Parameters end at a space; after a colon the rest is the last one.      *)
ParamsFrom(s) ==
    LET at[p \in 1..Len(s) + 1] ==
          LET e == IndexOf(s, p, "sp")
          IN  IF p <= Len(s) /\ s[p] = "col" THEN <<SubSeq(s, p + 1, Len(s))>>
              ELSE <<SubSeq(s, p, e - 1)>>
                     \o (IF e <= Len(s) THEN at[e + 1] ELSE <<>>)
    IN  at[1]

(* What follows the word of s that starts at p.                            *)
AfterWord(s, p) == SubSeq(s, IndexOf(s, p, "sp") + 1, Len(s))

(* The message in a line that is not empty.                                *)
Parse(line) ==
    LET prefixed == line[1] = "col"
        prefix == SubSeq(line, 2, IndexOf(line, 2, "sp") - 1)
        rest == IF prefixed THEN AfterWord(line, 2) ELSE line
        cmd == SubSeq(rest, 1, IndexOf(rest, 1, "sp") - 1)
        params == AfterWord(rest, 1)
    IN  [prefix |-> IF prefixed /\ prefix # <<>> THEN prefix ELSE NoPrefix,
         rawCmd |-> cmd, command |-> IrcCommand_parse(cmd),
         params |-> IF params = <<>> THEN <<>> ELSE ParamsFrom(params)]

(* IrcMessage_create: what it returns, none or one message, and the value  *)
(* it leaves in *pos.                                                      *)
IrcMessage_create(buf, pos) ==
    LET endpos == EndOfLine(buf, pos)
    IN  [msg |-> IF endpos > pos THEN <<Parse(SubSeq(buf, pos, endpos - 1))>>
                 ELSE <<>>,
         pos |-> IF endpos = 0 THEN pos ELSE endpos + 2]

-----------------------------------------------------------------------------
(* The last parameter needs a colon if it would not be taken for a word.   *)
NeedsColon(p) == p = <<>> \/ p[1] = "col" \/ \E i \in DOMAIN p : p[i] = "sp"

(* The line of a message, without its end.                                 *)
Format(m) ==
    LET word(p) == (IF NeedsColon(p) THEN <<"sp", "col">> ELSE <<"sp">>) \o p
    IN  (IF m.prefix = NoPrefix THEN <<>> ELSE <<"col">> \o m.prefix \o <<"sp">>)
          \o m.rawCmd \o FlattenSeq([i \in DOMAIN m.params |-> word(m.params[i])])

(* What a network must keep to so that a message can be read: no word is   *)
(* empty, begins with a colon or contains a space, only the last parameter *)
(* need not be one, and no line ends inside the message.                   *)
WellFormed(m) ==
    /\ m.prefix # NoPrefix => m.prefix # <<>> /\ "sp" \notin Range(m.prefix)
    /\ ~NeedsColon(m.rawCmd)
    /\ \A i \in 1..Len(m.params) - 1 : ~NeedsColon(m.params[i])
    /\ EndOfLine(Format(m), 1) = 0

CrLf == <<"cr", "lf">>
=============================================================================
