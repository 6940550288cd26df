----------------------------- MODULE RecvBuffer -----------------------------
(***************************************************************************)
(* The receive buffer of an IRC server (connDataReceived in ircserver.c):  *)
(* what the network sends arrives in reads of any size, and messages are   *)
(* handled as soon as they are complete.  What is left of an incomplete    *)
(* one stays in the buffer, also when the connection ends, because only    *)
(* connDataReceived writes recvbufsz.                                      *)
(***************************************************************************)
EXTENDS IrcMessage

CONSTANTS Bytes,         \* what a byte can be
          Messages,      \* what the network sends
          MaxRead,       \* bytes in one read
          MaxPartial,    \* longest rest of a message that is kept
          BufSize,       \* size of recvbuf
          MaxSent,       \* bound: lines per connection
          MaxConnections \* bound: connections

ASSUME SizesAssumption ==
    /\ MaxRead \in Nat \ {0} /\ MaxPartial \in Nat
    /\ BufSize \in Nat /\ MaxPartial + MaxRead <= BufSize
ASSUME BoundsAssumption == MaxSent \in Nat /\ MaxConnections \in Nat
ASSUME MessagesAssumption ==
    /\ {"cr", "lf", "sp", "col"} \subseteq Bytes
    /\ Messages \subseteq [prefix : Seq(Bytes) \cup {NoPrefix}, rawCmd : Seq(Bytes),
                          params : Seq(Seq(Bytes))]
    /\ \A m \in Messages : WellFormed(m)

VARIABLES
    recvbuf,     \* the bytes of recvbuf up to recvbufsz
    wire,        \* bytes on their way
    connections, \* connections so far
    sent,        \* history: messages sent on this connection
    empties,     \* history: empty lines sent on this connection
    got,         \* history: messages handled on this connection
    stream,      \* history: bytes put in recvbuf that were not discarded
    whole        \* history: nothing was discarded, nothing was there before

recvVars == <<recvbuf, wire, connections, sent, empties, got, stream, whole>>

(* The buffer holds the rest of one message, short enough that the next    *)
(* read fits: memcpy in connDataReceived checks nothing.                   *)
RecvTypeOK ==
    /\ Len(recvbuf) + MaxRead <= BufSize
    /\ EndOfLine(recvbuf, 1) = 0
    /\ connections \in 0..MaxConnections
    /\ empties \in Nat /\ Len(sent) + empties <= MaxSent
    /\ whole \in BOOLEAN

RecvInit ==
    /\ recvbuf = <<>> /\ wire = <<>> /\ connections = 0
    /\ sent = <<>> /\ empties = 0 /\ got = <<>> /\ stream = <<>> /\ whole = TRUE

-----------------------------------------------------------------------------
(* mutant: an empty line ends the loop *)
HandledUntilEmpty(buf, before) ==
    LET created == IrcMessage_create(buf, before.pos)
    IN  IF created.msg = <<>> THEN before
        ELSE [msgs |-> before.msgs \o created.msg, pos |-> created.pos]

(* Once through the loop of connDataReceived: the messages handled so far  *)
(* and the position after it.                                              *)
Handled(buf, before) ==
    LET created == IrcMessage_create(buf, before.pos)
    IN  [msgs |-> before.msgs \o created.msg, pos |-> created.pos]

(* After k times through it.  When the position stays where it was the     *)
(* loop ends, and going on would change nothing.                           *)
HandleUpTo(buf) ==
    LET handled[k \in 0..Len(buf)] ==
          IF k = 0 THEN [msgs |-> <<>>, pos |-> 1]
          ELSE Handled(buf, handled[k - 1])
    IN  handled

(* The messages handled, and the final position: each time but the last    *)
(* takes at least one byte.                                                *)
HandleAll(buf) == HandleUpTo(buf)[Len(buf)]

(* mutant: what is left may be as long as the buffer *)
TooLongOff(rest) == Len(rest) > BufSize

(* "protocol error": the rest is discarded.                                *)
TooLong(rest) == Len(rest) > MaxPartial

(* connDataReceived with the first n bytes on their way.                   *)
connDataReceived(n) ==
    LET buf == recvbuf \o SubSeq(wire, 1, n)
        r == HandleAll(buf)
        rest == SubSeq(buf, r.pos, Len(buf))
        all == stream \o SubSeq(wire, 1, n)
    IN  /\ wire' = SubSeq(wire, n + 1, Len(wire))
        /\ got' = got \o r.msgs
        /\ recvbuf' = IF TooLong(rest) THEN <<>> ELSE rest
        /\ stream' = SubSeq(all, 1, Len(all) - (Len(rest) - Len(recvbuf')))
        /\ whole' = (whole /\ ~TooLong(rest))
        /\ UNCHANGED <<connections, sent, empties>>

Read == \E n \in 1..MaxRead : n <= Len(wire) /\ connDataReceived(n)

(* The network sends a message, or an empty line.                          *)
RemoteSends(m) ==
    /\ Len(sent) + empties < MaxSent /\ connections > 0
    /\ sent' = Append(sent, m)
    /\ wire' = wire \o Format(m) \o CrLf
    /\ UNCHANGED <<recvbuf, connections, empties, got, stream, whole>>

RemoteSendsEmptyLine ==
    /\ Len(sent) + empties < MaxSent /\ connections > 0
    /\ empties' = empties + 1
    /\ wire' = wire \o CrLf
    /\ UNCHANGED <<recvbuf, connections, sent, got, stream, whole>>

(* The connection ends, with some of what was sent unread; the next one    *)
(* begins, and finds in the buffer what was left there.                    *)
Reconnect ==
    /\ connections < MaxConnections
    /\ connections' = connections + 1
    /\ wire' = <<>> /\ sent' = <<>> /\ empties' = 0 /\ got' = <<>>
    /\ stream' = recvbuf
    /\ whole' = (recvbuf = <<>>)
    /\ UNCHANGED recvbuf

RecvNext ==
    \/ Read
    \/ \E m \in Messages : RemoteSends(m)
    \/ RemoteSendsEmptyLine
    \/ Reconnect

RecvSpec == RecvInit /\ [][RecvNext]_recvVars

-----------------------------------------------------------------------------
(* Properties.                                                             *)

(* What byte i of a stream does to the lines found before it and to where  *)
(* the next one starts.  Empty lines do not count.                         *)
Scanned(s, before, i) ==
    IF i > before.from /\ s[i - 1] = "cr" /\ s[i] = "lf"
    THEN [lines |-> IF i - 1 = before.from THEN before.lines
                    ELSE Append(before.lines, SubSeq(s, before.from, i - 2)),
          from |-> i + 1]
    ELSE before

(* The lines that are complete after each byte of s, whatever the reads.   *)
Scan(s) ==
    LET scan[i \in 0..Len(s)] ==
          IF i = 0 THEN [lines |-> <<>>, from |-> 1]
          ELSE Scanned(s, scan[i - 1], i)
    IN  scan

Lines(s) == Scan(s)[Len(s)].lines

(* However the bytes are cut into reads, the messages handled are those in *)
(* the lines of the whole stream, each once and in order.  The stream of a *)
(* connection starts with what the last one left in the buffer: the first  *)
(* line is glued to it, and no other is affected.                          *)
Framing ==
    LET lines == Lines(stream)
    IN  got = [i \in DOMAIN lines |-> Parse(lines[i])]

(* The number by which a handler is chosen stands for the text that was    *)
(* sent: no reply is taken for a message like JOIN, whatever its number.   *)
CommandsNamed ==
    \A i \in DOMAIN got :
        got[i].command # CMD_UNKNOWN
            => IrcCommand_str[got[i].command] = got[i].rawCmd

(* Every message the network sends reaches handleMessage as it was meant,  *)
(* in order and without one missing, unless something was left by the last *)
(* connection or was too long: formatting, transport and parsing together  *)
(* change nothing, and the command means what was sent.                    *)
Faithful ==
    /\ whole => /\ Len(got) <= Len(sent)
                /\ wire = <<>> => Len(got) = Len(sent)
                /\ \A i \in DOMAIN got, f \in {"prefix", "rawCmd", "params"} :
                      got[i][f] = sent[i][f]
    /\ CommandsNamed
=============================================================================
