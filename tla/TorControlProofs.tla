--------------------------- MODULE TorControlProofs ---------------------------
(***************************************************************************)
(* The control connection, for any number of processes of a user and with  *)
(* or without data blocks: types, replies and commands stay in step, who   *)
(* serves is published, and who has left is not.                           *)
(***************************************************************************)
EXTENDS TorControl, SequenceTheorems, TLAPS

\* What the lines of s say.
Says(s) == {s[i].says : i \in 1..Len(s)}

\* Only the last line of a reply ends it.
EndLast(s) == \A i \in 1..Len(s) : s[i].kind \in {"end", "bad"} => i = Len(s)

\* What Tor may send p as the answer to c, or the beginning of one.
ReplyTo(p, c, s) ==
    /\ s \in Seq(Line)
    /\ EndLast(s)
    /\ c = "PROTOCOLINFO" /\ "NULL" \in Says(s) => tor[p].method = "NULL"
    /\ c = "AUTHCHALLENGE" /\ "proof" \in Says(s) => tor[p].knows
-------------------------------------------------------------------------------
(* Lines. *)

\* What is made of the words of the replies are lines.
LEMMA LineTypes ==
    /\ \A w \in Words : Mid(w) \in Line /\ End(w) \in Line
    /\ Ok \in Line /\ Bad \in Line
<1>1. \A w \in Words : Mid(w) \in Line /\ End(w) \in Line
  BY DEF Mid, End, Line
<1>2. Ok \in Line /\ Bad \in Line
  BY DEF Ok, End, Bad, Line, Words
<1>3. QED
  BY <1>1, <1>2

\* A sequence of two elements.
LEMMA Pair ==
    ASSUME NEW S, NEW x \in S, NEW y \in S
    PROVE  /\ <<x, y>> \in Seq(S) /\ Len(<<x, y>>) = 2
           /\ <<x, y>>[1] = x /\ <<x, y>>[2] = y
OBVIOUS

\* A reply of one line ends with it.
LEMMA OneLine ==
    ASSUME NEW w \in Words, NEW k \in {"end", "bad"}
    PROVE  LET s == <<[kind |-> k, says |-> w]>>
           IN  s \in Seq(Line) /\ EndLast(s) /\ Says(s) = {w}
<1> DEFINE s == <<[kind |-> k, says |-> w]>>
<1>1. [kind |-> k, says |-> w] \in Line
  BY DEF Line
<1>2. Len(s) = 1 /\ s[1] = [kind |-> k, says |-> w] /\ s \in Seq(Line)
  BY <1>1
<1> HIDE DEF s
<1>3. EndLast(s) /\ Says(s) = {w}
  BY <1>2 DEF EndLast, Says
<1>4. QED
  BY <1>2, <1>3 DEF s

\* A reply of a line and "OK".
LEMMA TwoLines ==
    ASSUME NEW w \in Words
    PROVE  LET s == <<Mid(w), Ok>>
           IN  s \in Seq(Line) /\ EndLast(s) /\ Says(s) = {w, "OK"}
<1> DEFINE s == <<Mid(w), Ok>>
<1>1. Mid(w) \in Line /\ Ok \in Line
  BY LineTypes
<1>2. Len(s) = 2 /\ s[1] = Mid(w) /\ s[2] = Ok /\ s \in Seq(Line)
  BY <1>1
<1> HIDE DEF s
<1>3. EndLast(s) /\ Says(s) = {w, "OK"}
  BY <1>2 DEF EndLast, Says, Mid, Ok, End
<1>4. QED
  BY <1>2, <1>3 DEF s

\* A reply of two lines and "OK".
LEMMA ThreeLines ==
    ASSUME NEW v \in Words, NEW w \in Words
    PROVE  LET s == <<Mid(v), Mid(w), Ok>>
           IN  s \in Seq(Line) /\ EndLast(s) /\ Says(s) = {v, w, "OK"}
<1> DEFINE s == <<Mid(v), Mid(w), Ok>>
<1>1. Mid(v) \in Line /\ Mid(w) \in Line /\ Ok \in Line
  BY LineTypes
<1>2. Len(s) = 3 /\ s[1] = Mid(v) /\ s[2] = Mid(w) /\ s[3] = Ok /\ s \in Seq(Line)
  BY <1>1
<1> HIDE DEF s
<1>3. EndLast(s) /\ Says(s) = {v, w, "OK"}
  BY <1>2 DEF EndLast, Says, Mid, Ok, End
<1>4. QED
  BY <1>2, <1>3 DEF s

\* What Tor grants is a reply.
LEMMA GrantedReply ==
    ASSUME NEW p \in Procs, tor[p] \in TorPeer, NEW c \in TorCommands
    PROVE  ReplyTo(p, c, Granted(p, c))
<1>1. tor[p].method \in {"SAFECOOKIE", "NULL", "other"} /\ tor[p].knows \in BOOLEAN
  BY DEF TorPeer
<1>2. CASE c = "PROTOCOLINFO"
  <2>1. tor[p].method \in Words
    BY <1>1 DEF Words
  <2>2. Granted(p, c) = <<Mid(tor[p].method), Ok>>
    BY <1>2 DEF Granted
  <2>3. QED
    BY <1>2, <2>1, <2>2, TwoLines DEF ReplyTo
<1>3. CASE c = "AUTHCHALLENGE"
  <2> DEFINE w == IF tor[p].knows THEN "proof" ELSE "guess"
  <2>1. w \in Words /\ (w = "proof" => tor[p].knows)
    BY DEF Words
  <2>2. Granted(p, c) = <<[kind |-> "end", says |-> w]>>
    BY <1>3 DEF Granted, End
  <2> HIDE DEF w
  <2>3. QED
    BY <1>3, <2>1, <2>2, OneLine DEF ReplyTo
<1>4. CASE c = "ADD_ONION"
  <2>1. {"ServiceID", "PrivateKey"} \subseteq Words
    BY DEF Words
  <2>2. \/ Granted(p, c) = <<Mid("ServiceID"), Mid("PrivateKey"), Ok>>
        \/ Granted(p, c) = <<Mid("ServiceID"), Ok>>
    BY <1>4 DEF Granted
  <2>3. QED
    BY <1>4, <2>1, <2>2, TwoLines, ThreeLines DEF ReplyTo
<1>5. CASE c \in {"AUTHENTICATE", "DEL_ONION"}
  <2>1. Granted(p, c) = <<[kind |-> "end", says |-> "OK"]>>
    BY <1>5 DEF Granted, Ok, End
  <2>2. "OK" \in Words
    BY DEF Words
  <2>3. QED
    BY <1>5, <2>1, <2>2, OneLine DEF ReplyTo
<1>6. QED
  BY <1>2, <1>3, <1>4, <1>5 DEF TorCommands

\* A data block before a reply changes nothing but its length.
LEMMA InBlockReply ==
    ASSUME NEW p \in Procs, NEW c \in TorCommands, NEW s, ReplyTo(p, c, s)
    PROVE  ReplyTo(p, c, InBlock(s)) /\ Len(InBlock(s)) = Len(s) + 2
<1> DEFINE open == [kind |-> "block", says |-> ""]
           dot == [kind |-> "dot", says |-> ""]
           t == InBlock(s)
<1>1. open \in Line /\ dot \in Line
  BY DEF Line, Words
<1>2. t = <<open, dot>> \o s
  BY DEF InBlock
<1>3. /\ open.kind = "block" /\ open.says = ""
      /\ dot.kind = "dot" /\ dot.says = ""
  OBVIOUS
<1>4. s \in Seq(Line) /\ EndLast(s)
  BY DEF ReplyTo
<1>5. Len(s) \in Nat
  BY <1>4
<1> HIDE DEF open, dot, t
<1>6. /\ <<open, dot>> \in Seq(Line) /\ Len(<<open, dot>>) = 2
      /\ <<open, dot>>[1] = open /\ <<open, dot>>[2] = dot
  BY <1>1, Pair
<1>7. /\ t \in Seq(Line) /\ Len(t) = Len(s) + 2
      /\ \A i \in 1..(2 + Len(s)) : t[i] = IF i <= 2 THEN <<open, dot>>[i] ELSE s[i - 2]
  BY <1>2, <1>4, <1>5, <1>6, ConcatProperties
<1>8. \A i \in 1..Len(t) :
        \/ t[i] \in {open, dot}
        \/ i - 2 \in 1..Len(s) /\ t[i] = s[i - 2]
  BY <1>5, <1>6, <1>7
<1>9. EndLast(t)
  <2> SUFFICES ASSUME NEW i \in 1..Len(t), t[i].kind \in {"end", "bad"}
               PROVE  i = Len(t)
    BY DEF EndLast
  <2>1. t[i] \notin {open, dot}
    BY <1>3
  <2>2. i - 2 \in 1..Len(s) /\ s[i - 2].kind \in {"end", "bad"}
    BY <1>8, <2>1
  <2>3. i - 2 = Len(s)
    BY <1>4, <2>2 DEF EndLast
  <2>4. QED
    BY <1>5, <1>7, <2>3
<1>10. Says(t) \subseteq Says(s) \cup {""}
  <2> SUFFICES ASSUME NEW i \in 1..Len(t)
               PROVE  t[i].says \in Says(s) \cup {""}
    BY DEF Says
  <2>1. CASE t[i] \in {open, dot}
    BY <1>3, <2>1
  <2>2. CASE i - 2 \in 1..Len(s) /\ t[i] = s[i - 2]
    BY <2>2 DEF Says
  <2>3. QED
    BY <1>8, <2>1, <2>2
<1>11. QED
  BY <1>7, <1>9, <1>10 DEF ReplyTo, t

\* Every reply is one, and only a refusal is <<Bad>>.
LEMMA RepliesReply ==
    ASSUME NEW p \in Procs, tor[p] \in TorPeer, NEW c \in TorCommands,
           NEW s \in Replies(p, c)
    PROVE  ReplyTo(p, c, s)
<1>1. ReplyTo(p, c, <<Bad>>)
  <2>1. "" \in Words
    BY DEF Words
  <2>2. QED
    BY <2>1, OneLine DEF ReplyTo, Bad
<1>2. s \in {<<Bad>>, Granted(p, c), InBlock(Granted(p, c))}
  BY DEF Replies
<1>3. QED
  BY <1>1, <1>2, GrantedReply, InBlockReply

\* The beginning of a reply is what a closed connection leaves of it.
LEMMA PrefixReply ==
    ASSUME NEW p \in Procs, NEW c \in TorCommands, NEW s, ReplyTo(p, c, s),
           NEW k \in 1..Len(s)
    PROVE  ReplyTo(p, c, SubSeq(s, 1, k))
<1> DEFINE t == SubSeq(s, 1, k)
<1>1. s \in Seq(Line) /\ Len(s) \in Nat /\ \A i \in 1..Len(s) : s[i] \in Line
  BY DEF ReplyTo
<1>2. t \in Seq(Line) /\ Len(t) = k /\ \A i \in 1..k : t[i] = s[i]
  <2>1. \A i \in 1..k : s[i] \in Line
    BY <1>1
  <2>2. /\ t \in Seq(Line) /\ Len(t) = (IF 1 <= k THEN k - 1 + 1 ELSE 0)
        /\ \A i \in 1..(k - 1 + 1) : t[i] = s[1 + i - 1]
    BY <1>1, <2>1, SubSeqProperties
  <2> HIDE DEF t
  <2>3. QED
    BY <1>1, <2>2
<1> HIDE DEF t
<1>3. EndLast(t) /\ Says(t) \subseteq Says(s)
  BY <1>1, <1>2 DEF EndLast, Says, ReplyTo
<1>4. QED
  BY <1>2, <1>3 DEF ReplyTo, t

\* Reading a line leaves a reply, and nothing when it was the last.
LEMMA TailReply ==
    ASSUME NEW p \in Procs, NEW c, NEW s, ReplyTo(p, c, s), s # <<>>
    PROVE  /\ ReplyTo(p, c, Tail(s))
           /\ Head(s) \in Line /\ Head(s).says \in Says(s)
           /\ Says(Tail(s)) \subseteq Says(s)
           /\ Head(s).kind \in {"end", "bad"} => Tail(s) = <<>>
<1> DEFINE t == Tail(s)
<1>1. s \in Seq(Line) /\ EndLast(s)
  BY DEF ReplyTo
<1>2. Len(s) \in Nat \ {0} /\ Head(s) = s[1]
  BY <1>1, EmptySeq
<1>3. /\ Head(s) \in Line /\ t \in Seq(Line) /\ Len(t) = Len(s) - 1
      /\ \A i \in 1..Len(t) : t[i] = s[i + 1]
  BY <1>1, HeadTailProperties
<1> HIDE DEF t
<1>4. EndLast(t)
  BY <1>1, <1>2, <1>3 DEF EndLast
<1>5. Says(t) \subseteq Says(s) /\ Head(s).says \in Says(s)
  BY <1>2, <1>3 DEF Says
<1>6. ASSUME Head(s).kind \in {"end", "bad"} PROVE t = <<>>
  <2>1. Len(t) = 0
    BY <1>1, <1>2, <1>3, <1>6 DEF EndLast
  <2>2. QED
    BY <1>3, <2>1, EmptySeq
<1>7. ReplyTo(p, c, t)
  BY <1>3, <1>4, <1>5 DEF ReplyTo
<1>8. QED
  BY <1>3, <1>5, <1>6, <1>7 DEF t

\* Nothing is the beginning of every reply.
LEMMA Silence == <<>> \in Seq(Line) /\ EndLast(<<>>) /\ Says(<<>>) = {}
<1>1. <<>> \in Seq(Line) /\ Len(<<>>) = 0
  BY EmptySeq
<1>2. QED
  BY <1>1 DEF EndLast, Says

\* What is granted when an onion is deleted is no refusal.
LEMMA DeletedIsNotBad ==
    ASSUME NEW p \in Procs
    PROVE  Granted(p, "DEL_ONION") # <<Bad>> /\ InBlock(Granted(p, "DEL_ONION")) # <<Bad>>
<1> DEFINE s == Granted(p, "DEL_ONION")
<1> DEFINE open == [kind |-> "block", says |-> ""]
           dot == [kind |-> "dot", says |-> ""]
<1>1. Ok \in Line /\ Bad \in Line /\ open \in Line /\ dot \in Line
  BY LineTypes DEF Line, Words
<1>2. Ok # Bad
  BY DEF Ok, End, Bad
<1>3. s = <<Ok>> /\ InBlock(s) = <<open, dot>> \o s
  BY DEF Granted, InBlock
<1> HIDE DEF s, open, dot
<1>4. s \in Seq(Line) /\ Len(s) = 1 /\ s[1] = Ok
  BY <1>1, <1>3
<1>5. Len(<<Bad>>) = 1 /\ <<Bad>>[1] = Bad
  OBVIOUS
<1>6. <<open, dot>> \in Seq(Line) /\ Len(<<open, dot>>) = 2
  BY <1>1, Pair
<1>7. Len(<<open, dot>> \o s) = Len(<<open, dot>>) + Len(s)
  BY <1>4, <1>6, ConcatProperties
<1>8. s # <<Bad>>
  BY <1>2, <1>4, <1>5
<1>9. InBlock(s) # <<Bad>>
  BY <1>3, <1>4, <1>5, <1>6, <1>7
<1>10. QED
  BY <1>8, <1>9 DEF s
-------------------------------------------------------------------------------
(* The invariant, process by process. *)

\* A process that runs has a connection, and one that does not holds none.
Place(p) ==
    /\ step[p] = "idle" => link[p] \in {"none", "half"} /\ tor[p] = Nobody
    /\ step[p] # "idle" => link[p] \in {"up", "closed"}
    /\ step[p] \notin TorCommands => wire[p] = <<>> /\ got[p] = {}

\* Tor has one command to answer, the one whose reply p waits for.
Asked(p) ==
    pending[p] # "none" =>
        /\ link[p] \in {"up", "half"}
        /\ wire[p] = <<>>
        /\ step[p] # "idle" => pending[p] = step[p]

\* What p has not read, and what it has read, is of the reply it waits for.
Heard(p) ==
    /\ ReplyTo(p, step[p], wire[p])
    /\ step[p] = "PROTOCOLINFO" /\ "NULL" \in got[p] => tor[p].method = "NULL"
    /\ step[p] = "AUTHCHALLENGE" /\ "proof" \in got[p] => tor[p].knows

AfterProof == {"AUTHENTICATE", "ADD_ONION", "serving", "sending", "DEL_ONION"}

\* Who offers SAFECOOKIE has shown that it knows the cookie.
Trusted(p) ==
    step[p] \in AfterProof /\ tor[p].method = "SAFECOOKIE" => tor[p].knows

Mine(p) == [owner |-> p, onion |-> "mine"]

\* When the onion of p is up, and when it is not.
Published(p) ==
    /\ link[p] \in {"none", "closed"} => ServicesOf(p) = {}
    /\ step[p] = "ADD_ONION" /\ does[p] # "init" /\ pending[p] = "none" /\ link[p] = "up" =>
            Mine(p) \in ServicesOf(p) \/ wire[p] = <<Bad>>
    /\ step[p] \in {"serving", "sending"} /\ link[p] = "up" => Mine(p) \in ServicesOf(p)
    /\ step[p] = "DEL_ONION" /\ pending[p] = "none" => ServicesOf(p) = {}
    /\ clean[p] => step[p] = "idle" /\ pending[p] = "none" /\ ServicesOf(p) = {}

ProcInv(p) == Place(p) /\ Asked(p) /\ Heard(p) /\ Trusted(p) /\ Published(p)

TorInv == TypeOK /\ \A p \in Procs : ProcInv(p)

\* Nothing of q changes.
Untouched(q) ==
    /\ does'[q] = does[q] /\ step'[q] = step[q] /\ link'[q] = link[q]
    /\ tor'[q] = tor[q] /\ pending'[q] = pending[q] /\ wire'[q] = wire[q]
    /\ got'[q] = got[q] /\ clean'[q] = clean[q]
    /\ ServicesOf(q)' = ServicesOf(q)

\* What is left to show of a step of p.
Kept(p) == TypeOK' /\ ProcInv(p)' /\ \A q \in Procs \ {p} : Untouched(q)

\* A process that nothing happens to keeps its invariant.
LEMMA UntouchedKeeps ==
    ASSUME NEW q \in Procs, ProcInv(q), Untouched(q)
    PROVE  ProcInv(q)'
<1>1. Place(q)' /\ Asked(q)' /\ Trusted(q)'
  BY DEF ProcInv, Untouched, Place, Asked, Trusted
<1>2. Heard(q)'
  BY DEF ProcInv, Untouched, Heard, ReplyTo
<1>3. Published(q)'
  BY DEF ProcInv, Untouched, Published
<1>4. QED
  BY <1>1, <1>2, <1>3 DEF ProcInv

\* A step that keeps the services keeps everybody's.
LEMMA SameServices ==
    ASSUME UNCHANGED services
    PROVE  \A q \in Procs : ServicesOf(q)' = ServicesOf(q)
BY DEF ServicesOf

\* A service is added to those of its owner.
LEMMA AddService ==
    ASSUME NEW p \in Procs, services \subseteq Service, NEW new \in Service, new.owner = p
    PROVE  /\ services \cup {new} \subseteq Service
           /\ \A q \in Procs \ {p} : {s \in services \cup {new} : s.owner = q} = ServicesOf(q)
           /\ new \in {s \in services \cup {new} : s.owner = p}
BY DEF ServicesOf

\* The services of p are removed, and those of the others are left.
LEMMA RemoveServices ==
    ASSUME NEW p \in Procs, services \subseteq Service
    PROVE  /\ services \ ServicesOf(p) \subseteq Service
           /\ \A q \in Procs \ {p} : {s \in services \ ServicesOf(p) : s.owner = q} = ServicesOf(q)
           /\ {s \in services \ ServicesOf(p) : s.owner = p} = {}
BY DEF ServicesOf
-------------------------------------------------------------------------------
(* The steps of the client. *)

\* What is known of a process that reads a line.
LEMMA Reading ==
    ASSUME TorInv, NEW p \in Procs, NEW kinds, Reads(p, kinds)
    PROVE  /\ step[p] \in TorCommands /\ step[p] # "idle" /\ pending[p] = "none"
           /\ ReplyTo(p, step[p], Tail(wire[p]))
           /\ Head(wire[p]) \in Line /\ Head(wire[p]).kind \in kinds
           /\ Head(wire[p]).says \in Says(wire[p])
           /\ Head(wire[p]).kind \in {"end", "bad"} => Tail(wire[p]) = <<>>
<1>1. ReplyTo(p, step[p], wire[p]) /\ wire[p] # <<>> /\ step[p] \in TorCommands
  BY DEF TorInv, ProcInv, Heard, Reads
<1>2. pending[p] = "none"
  BY <1>1 DEF TorInv, ProcInv, Asked
<1>3. step[p] # "idle" /\ Head(wire[p]).kind \in kinds
  BY <1>1 DEF TorCommands, Reads
<1>4. QED
  BY <1>1, <1>2, <1>3, TailReply

\* What the last line of a reply has said, with the lines before it.
LEMMA SaidOf ==
    ASSUME TorInv, NEW p \in Procs, NEW kinds, Reads(p, kinds)
    PROVE  /\ step[p] = "PROTOCOLINFO" /\ "NULL" \in Said(p) => tor[p].method = "NULL"
           /\ step[p] = "AUTHCHALLENGE" /\ "proof" \in Said(p) => tor[p].knows
<1>1. Head(wire[p]).says \in Says(wire[p])
  BY Reading
<1>2. Heard(p)
  BY DEF TorInv, ProcInv
<1>3. QED
  BY <1>1, <1>2 DEF Said, Heard, ReplyTo

\* A command is written when nothing is left to read.
LEMMA WriteStep ==
    ASSUME TorInv, NEW p \in Procs, NEW c \in TorCommands,
           step[p] # "idle", pending[p] = "none",
           c \in AfterProof /\ tor[p].method = "SAFECOOKIE" => tor[p].knows,
           Write(p, c), wire' = [wire EXCEPT ![p] = <<>>]
    PROVE  Kept(p)
<1>1. /\ step' = [step EXCEPT ![p] = c]
      /\ pending' = [pending EXCEPT ![p] = IF link[p] = "up" THEN c ELSE "none"]
      /\ got' = [got EXCEPT ![p] = {}]
      /\ UNCHANGED <<does, link, tor, inBlock, services, leaving, clean>>
  BY DEF Write
<1>2. TypeOK /\ ProcInv(p) /\ c # "idle" /\ c # "none" /\ c \in Steps
  BY DEF TorInv, TorCommands, Steps
<1>3. TypeOK'
  BY <1>1, <1>2, Silence DEF TypeOK
<1>4. /\ step'[p] = c /\ wire'[p] = <<>> /\ got'[p] = {}
      /\ pending'[p] = IF link[p] = "up" THEN c ELSE "none"
  BY <1>1, <1>2 DEF TypeOK
<1>5. \A q \in Procs : ServicesOf(q)' = ServicesOf(q)
  BY <1>1, SameServices
<1>6. \A q \in Procs \ {p} : Untouched(q)
  BY <1>1, <1>5 DEF Untouched
<1>7. link[p] \in {"up", "closed"}
  BY <1>2 DEF ProcInv, Place
<1>8. Place(p)' /\ Asked(p)' /\ Trusted(p)'
  BY <1>1, <1>2, <1>4, <1>7 DEF Place, Asked, Trusted
<1>9. Heard(p)'
  BY <1>4, Silence DEF Heard, ReplyTo
<1>10. Published(p)'
  <2>1. c \notin {"serving", "sending"} /\ ~clean[p]
    BY <1>2 DEF TorCommands, ProcInv, Published, TypeOK
  <2>2. QED
    BY <1>1, <1>2, <1>4, <1>5, <1>7, <2>1 DEF Published, ProcInv
<1>11. QED
  BY <1>3, <1>6, <1>8, <1>9, <1>10 DEF Kept, ProcInv

\* A process ends; when it says that it ended well, its onion is down.
LEMMA ExitStep ==
    ASSUME TorInv, NEW p \in Procs, NEW well \in BOOLEAN, step[p] # "idle",
           well => pending[p] = "none" /\ ServicesOf(p) = {},
           Exit(p, well)
    PROVE  Kept(p)
<1>1. /\ step' = [step EXCEPT ![p] = "idle"]
      /\ link' = [link EXCEPT ![p] = IF @ = "up" THEN "half" ELSE "none"]
      /\ tor' = [tor EXCEPT ![p] = Nobody]
      /\ wire' = [wire EXCEPT ![p] = <<>>]
      /\ got' = [got EXCEPT ![p] = {}]
      /\ inBlock' = [inBlock EXCEPT ![p] = FALSE]
      /\ leaving' = [leaving EXCEPT ![p] = "no"]
      /\ clean' = [clean EXCEPT ![p] = well]
      /\ UNCHANGED <<does, pending, services>>
  BY DEF Exit
<1>2. TypeOK /\ ProcInv(p) /\ "idle" \notin TorCommands /\ "idle" \in Steps
  BY DEF TorInv, TorCommands, Steps
<1>3. Nobody \in TorPeer /\ Nobody.method = "other"
  BY DEF Nobody, TorPeer
<1>4. TypeOK'
  BY <1>1, <1>2, <1>3, Silence DEF TypeOK
<1>5. /\ step'[p] = "idle" /\ wire'[p] = <<>> /\ got'[p] = {} /\ tor'[p] = Nobody
      /\ link'[p] = (IF link[p] = "up" THEN "half" ELSE "none") /\ clean'[p] = well
  BY <1>1, <1>2 DEF TypeOK
<1>6. \A q \in Procs : ServicesOf(q)' = ServicesOf(q)
  BY <1>1, SameServices
<1>7. \A q \in Procs \ {p} : Untouched(q)
  BY <1>1, <1>6 DEF Untouched
<1>8. link[p] \in {"up", "closed"}
  BY <1>2 DEF ProcInv, Place
<1>9. Place(p)' /\ Asked(p)' /\ Trusted(p)'
  BY <1>1, <1>2, <1>3, <1>5, <1>8 DEF ProcInv, Place, Asked, Trusted
<1>10. Heard(p)'
  BY <1>5, Silence DEF Heard, ReplyTo
<1>11. Published(p)'
  BY <1>1, <1>2, <1>5, <1>6, <1>8 DEF Published, ProcInv
<1>12. QED
  BY <1>4, <1>7, <1>9, <1>10, <1>11 DEF Kept, ProcInv

\* A command fails: when it is DEL_ONION, there is no onion any more.
LEMMA FailStep ==
    ASSUME TorInv, NEW p \in Procs, step[p] # "idle", pending[p] = "none", Fail(p)
    PROVE  Kept(p)
<1>1. step[p] = "DEL_ONION" => ServicesOf(p) = {}
  BY DEF TorInv, ProcInv, Published
<1>2. QED
  BY <1>1, ExitStep DEF Fail

\* A line that is not the last one is read.
LEMMA ReadLineStep ==
    ASSUME TorInv, NEW p \in Procs, ReadLine(p)
    PROVE  Kept(p)
<1> DEFINE line == Head(wire[p])
<1>1. /\ Reads(p, {"mid", "block", "dot"})
      /\ wire' = [wire EXCEPT ![p] = Tail(wire[p])]
      /\ inBlock' = [inBlock EXCEPT ![p] = line.kind = "block"]
      /\ got' = [got EXCEPT ![p] = IF line.kind = "mid" THEN got[p] \cup {line.says} ELSE got[p]]
      /\ UNCHANGED <<does, step, link, tor, pending, services, leaving, clean>>
  BY DEF ReadLine, Consume
<1>2. /\ step[p] \in TorCommands /\ step[p] # "idle" /\ pending[p] = "none"
      /\ ReplyTo(p, step[p], Tail(wire[p])) /\ line \in Line /\ line.says \in Says(wire[p])
      /\ line.kind \in {"mid", "block", "dot"}
  BY <1>1, Reading
<1>3. TypeOK /\ ProcInv(p) /\ line.says \in Words /\ Tail(wire[p]) \in Seq(Line)
  BY <1>2 DEF TorInv, ReplyTo, Line
<1> HIDE DEF line
<1>4. TypeOK'
  <2>1. wire' \in [Procs -> Seq(Line)] /\ got' \in [Procs -> SUBSET Words]
    BY <1>1, <1>3 DEF TypeOK
  <2>2. inBlock' \in [Procs -> BOOLEAN]
    BY <1>1, <1>3 DEF TypeOK
  <2>3. QED
    BY <1>1, <1>3, <2>1, <2>2 DEF TypeOK
<1>5. /\ wire'[p] = Tail(wire[p])
      /\ got'[p] \subseteq got[p] \cup {line.says}
  BY <1>1, <1>3 DEF TypeOK
<1>6. \A q \in Procs : ServicesOf(q)' = ServicesOf(q)
  BY <1>1, SameServices
<1>7. \A q \in Procs \ {p} : Untouched(q)
  BY <1>1, <1>6 DEF Untouched
<1>8. Place(p)' /\ Asked(p)' /\ Trusted(p)'
  BY <1>1, <1>2, <1>3 DEF ProcInv, Place, Asked, Trusted
<1>9. Heard(p)'
  <2>1. step'[p] = step[p] /\ tor'[p] = tor[p]
    BY <1>1
  <2>2. Heard(p) /\ ReplyTo(p, step[p], wire[p])
    BY <1>3 DEF ProcInv, Heard
  <2>3. QED
    BY <1>2, <1>5, <2>1, <2>2 DEF Heard, ReplyTo
<1>10. Published(p)'
  <2>1. wire[p] # <<Bad>>
    <3>1. Head(<<Bad>>) = Bad /\ Bad.kind = "bad"
      BY DEF Bad
    <3>2. QED
      BY <1>2, <3>1 DEF line
  <2>2. clean'[p] = clean[p] /\ link'[p] = link[p] /\ does'[p] = does[p]
        /\ pending'[p] = pending[p] /\ step'[p] = step[p]
        /\ ServicesOf(p)' = ServicesOf(p)
    BY <1>1, <1>6
  <2>3. Published(p)
    BY <1>3 DEF ProcInv
  <2>4. QED
    BY <1>2, <2>1, <2>2, <2>3 DEF Published, Mine
<1>11. QED
  BY <1>4, <1>7, <1>8, <1>9, <1>10 DEF Kept, ProcInv

\* A command is started.
LEMMA ConnectStep ==
    ASSUME TorInv, NEW p \in Procs, Connect(p)
    PROVE  Kept(p)
<1>1. PICK d \in Commands : does' = [does EXCEPT ![p] = d]
  BY DEF Connect
<1>2. PICK t \in TorPeer : tor' = [tor EXCEPT ![p] = t]
  BY DEF Connect
<1>3. /\ step[p] = "idle" /\ link[p] = "none"
      /\ step' = [step EXCEPT ![p] = "PROTOCOLINFO"]
      /\ link' = [link EXCEPT ![p] = "up"]
      /\ pending' = [pending EXCEPT ![p] = "PROTOCOLINFO"]
      /\ clean' = [clean EXCEPT ![p] = FALSE]
      /\ UNCHANGED <<wire, got, inBlock, services, leaving>>
  BY DEF Connect
<1>4. TypeOK /\ ProcInv(p) /\ got[p] = {} /\ wire[p] = <<>>
  BY <1>3 DEF TorInv, ProcInv, Place, TorCommands
<1>5. TypeOK'
  BY <1>1, <1>2, <1>3, <1>4 DEF TypeOK, Steps, TorCommands
<1>6. /\ step'[p] = "PROTOCOLINFO" /\ link'[p] = "up" /\ pending'[p] = "PROTOCOLINFO"
      /\ clean'[p] = FALSE /\ wire'[p] = <<>> /\ got'[p] = {}
  BY <1>3, <1>4 DEF TypeOK
<1>7. \A q \in Procs : ServicesOf(q)' = ServicesOf(q)
  BY <1>3, SameServices
<1>8. \A q \in Procs \ {p} : Untouched(q)
  BY <1>1, <1>2, <1>3, <1>7 DEF Untouched
<1>9. Place(p)' /\ Asked(p)' /\ Trusted(p)' /\ Published(p)'
  BY <1>6 DEF Place, Asked, Trusted, Published, TorCommands, AfterProof
<1>10. Heard(p)'
  BY <1>6, Silence DEF Heard, ReplyTo
<1>11. QED
  BY <1>5, <1>8, <1>9, <1>10 DEF Kept, ProcInv

\* The onion is up when publish_onion returns.
LEMMA PublishStep ==
    ASSUME TorInv, NEW p \in Procs, Publish(p)
    PROVE  Kept(p)
<1>1. /\ step[p] = "ADD_ONION" /\ does[p] # "init" /\ Reads(p, {"end"})
      /\ wire' = [wire EXCEPT ![p] = Tail(wire[p])]
      /\ step' = [step EXCEPT ![p] = "serving"]
      /\ got' = [got EXCEPT ![p] = {}]
      /\ UNCHANGED <<does, link, tor, pending, inBlock, services, leaving, clean>>
  BY DEF Publish, Reply, Consume
<1>2. /\ pending[p] = "none" /\ Head(wire[p]).kind \in {"end"}
      /\ Tail(wire[p]) = <<>>
  BY <1>1, Reading
<1>3. TypeOK /\ ProcInv(p)
  BY DEF TorInv
<1>4. TypeOK'
  BY <1>1, <1>2, <1>3, Silence DEF TypeOK, Steps
<1>5. step'[p] = "serving" /\ wire'[p] = <<>> /\ got'[p] = {}
  BY <1>1, <1>2, <1>3 DEF TypeOK
<1>6. \A q \in Procs : ServicesOf(q)' = ServicesOf(q)
  BY <1>1, SameServices
<1>7. \A q \in Procs \ {p} : Untouched(q)
  BY <1>1, <1>6 DEF Untouched
<1>8. Place(p)' /\ Asked(p)' /\ Trusted(p)'
  BY <1>1, <1>2, <1>3, <1>5 DEF ProcInv, Place, Asked, Trusted, TorCommands, AfterProof
<1>9. Heard(p)'
  BY <1>5, Silence DEF Heard, ReplyTo
<1>10. Published(p)'
  <2>1. wire[p] # <<Bad>>
    <3>1. Head(<<Bad>>) = Bad /\ Bad.kind = "bad"
      BY DEF Bad
    <3>2. QED
      BY <1>2, <3>1
  <2>2. QED
    BY <1>1, <1>2, <1>3, <1>5, <1>6, <2>1 DEF ProcInv, Published, Mine
<1>11. QED
  BY <1>4, <1>7, <1>8, <1>9, <1>10 DEF Kept, ProcInv

\* A process that serves may send, and may be told to leave.
LEMMA ServingStep ==
    ASSUME TorInv, NEW p \in Procs, SendLine(p) \/ Sent(p) \/ Interrupt(p) \/ TypeQuit(p)
    PROVE  Kept(p)
<1>1. /\ step[p] \in {"serving", "sending"}
      /\ UNCHANGED <<does, link, tor, pending, wire, got, inBlock, services, clean>>
  BY DEF SendLine, Sent, Interrupt, TypeQuit
<1>2. TypeOK /\ ProcInv(p)
  BY DEF TorInv
<1>3. /\ step' \in [Procs -> Steps] /\ leaving' \in [Procs -> {"no", "signal", "quit"}]
      /\ step'[p] \in {"serving", "sending"}
      /\ \A q \in Procs \ {p} : step'[q] = step[q]
  BY <1>1, <1>2 DEF SendLine, Sent, Interrupt, TypeQuit, TypeOK, Steps
<1>4. TypeOK'
  BY <1>1, <1>2, <1>3 DEF TypeOK
<1>5. \A q \in Procs : ServicesOf(q)' = ServicesOf(q)
  BY <1>1, SameServices
<1>6. \A q \in Procs \ {p} : Untouched(q)
  BY <1>1, <1>3, <1>5 DEF Untouched
<1>7. Place(p)' /\ Trusted(p)'
  BY <1>1, <1>2, <1>3 DEF ProcInv, Place, Trusted, TorCommands, AfterProof
<1>8. pending[p] = "none" /\ wire[p] = <<>>
  BY <1>1, <1>2 DEF ProcInv, Place, Asked, TypeOK, TorCommands
<1>9. Asked(p)'
  BY <1>1, <1>8 DEF Asked
<1>10. Heard(p)'
  BY <1>1, <1>3, <1>8, Silence DEF Heard, ReplyTo
<1>11. Published(p)'
  BY <1>1, <1>2, <1>3, <1>5 DEF ProcInv, Published, Mine
<1>12. QED
  BY <1>4, <1>6, <1>7, <1>9, <1>10, <1>11 DEF Kept, ProcInv

\* Every step of a process, and of its user.
LEMMA ClientStep ==
    ASSUME TorInv, NEW p \in Procs, Client(p) \/ User(p)
    PROVE  Kept(p)
<1> USE DEF TorCommands, AfterProof
<1>1. CASE ReadLine(p)
  BY <1>1, ReadLineStep
<1>2. CASE ReadBad(p) \/ Eof(p)
  <2>1. CASE ReadBad(p)
    BY <2>1, Reading, FailStep DEF ReadBad
  <2>2. CASE Eof(p)
    <3>1. step[p] # "idle" /\ link[p] = "closed"
      BY <2>2 DEF Eof
    <3>2. pending[p] = "none"
      BY <3>1 DEF TorInv, ProcInv, Asked
    <3>3. QED
      BY <2>2, <3>1, <3>2, FailStep DEF Eof
  <2>3. QED
    BY <1>2, <2>1, <2>2
<1>3. ASSUME NEW c \in TorCommands, NEW d \in TorCommands, Reply(p, c), Write(p, d),
             d \in AfterProof /\ tor[p].method = "SAFECOOKIE" => tor[p].knows
      PROVE  Kept(p)
  <2>1. step[p] # "idle" /\ pending[p] = "none" /\ Tail(wire[p]) = <<>>
    BY <1>3, Reading DEF Reply
  <2>2. wire' = [wire EXCEPT ![p] = <<>>]
    BY <1>3, <2>1 DEF Reply, Consume
  <2>3. QED
    BY <1>3, <2>1, <2>2, WriteStep
<1>4. ASSUME Reads(p, {"end"}), Fail(p)
      PROVE  Kept(p)
  BY <1>4, Reading, FailStep
<1>5. Trusted(p)
  BY DEF TorInv, ProcInv
<1>6. CASE ChooseMethod(p)
  <2>1. CASE Reads(p, {"end"}) /\ Fail(p)
    BY <1>4, <2>1
  <2>2. CASE Reply(p, "PROTOCOLINFO") /\ Write(p, "AUTHCHALLENGE")
    BY <1>3, <2>2
  <2>3. CASE Reply(p, "PROTOCOLINFO") /\ "NULL" \in Said(p) /\ Write(p, "AUTHENTICATE")
    <3>1. tor[p].method = "NULL"
      BY <2>3, SaidOf DEF Reply
    <3>2. QED
      BY <1>3, <2>3, <3>1
  <2>4. QED
    BY <1>6, <2>1, <2>2, <2>3 DEF ChooseMethod
<1>7. CASE CheckProof(p)
  <2>1. CASE Reads(p, {"end"}) /\ Fail(p)
    BY <1>4, <2>1
  <2>2. CASE Reply(p, "AUTHCHALLENGE") /\ "proof" \in Said(p) /\ Write(p, "AUTHENTICATE")
    <3>1. tor[p].knows
      BY <2>2, SaidOf DEF Reply
    <3>2. QED
      BY <1>3, <2>2, <3>1
  <2>3. QED
    BY <1>7, <2>1, <2>2 DEF CheckProof
<1>8. CASE AddOnion(p)
  BY <1>3, <1>5, <1>8 DEF AddOnion, Trusted, Reply
<1>9. CASE Publish(p)
  BY <1>9, PublishStep
<1>10. CASE SaveIdentity(p)
  <2>1. CASE Reads(p, {"end"}) /\ Fail(p)
    BY <1>4, <2>1
  <2>2. CASE Reply(p, "ADD_ONION") /\ Write(p, "DEL_ONION")
    BY <1>3, <1>5, <2>2 DEF Trusted, Reply
  <2>3. QED
    BY <1>10, <2>1, <2>2 DEF SaveIdentity
<1>11. CASE Deleted(p)
  <2>1. step[p] = "DEL_ONION" /\ pending[p] = "none" /\ Exit(p, TRUE)
    BY <1>11, Reading DEF Deleted
  <2>2. ServicesOf(p) = {}
    BY <2>1 DEF TorInv, ProcInv, Published
  <2>3. QED
    BY <2>1, <2>2, ExitStep
<1>12. CASE Sent(p) \/ SendLine(p) \/ Interrupt(p) \/ TypeQuit(p)
  BY <1>12, ServingStep
<1>13. CASE Stop(p)
  <2>1. step[p] = "serving" /\ Write(p, "DEL_ONION") /\ wire' = wire
    BY <1>13 DEF Stop
  <2>2. wire[p] = <<>> /\ pending[p] = "none"
    BY <2>1 DEF TorInv, ProcInv, Place, Asked, TypeOK
  <2>3. wire' = [wire EXCEPT ![p] = <<>>]
    BY <2>1, <2>2 DEF TorInv, TypeOK
  <2>4. QED
    BY <1>5, <2>1, <2>2, <2>3, WriteStep DEF Trusted
<1>14. CASE Connect(p)
  BY <1>14, ConnectStep
<1>15. CASE ListenerFails(p) \/ Kill(p)
  BY <1>15, ExitStep DEF ListenerFails, Kill
<1>16. QED
  BY <1>1, <1>2, <1>6, <1>7, <1>8, <1>9, <1>10, <1>11, <1>12, <1>13, <1>14, <1>15
     DEF Client, User
-------------------------------------------------------------------------------
(* The steps of Tor. *)

\* Tor answers; what it grants has its effect.
LEMMA AnswerStep ==
    ASSUME TorInv, NEW p \in Procs, Answer(p)
    PROVE  Kept(p)
<1> DEFINE c == pending[p]
<1>1. PICK reply \in Replies(p, c) :
        /\ wire' = [wire EXCEPT ![p] = IF link[p] = "up" THEN reply ELSE <<>>]
        /\ services' = IF reply = <<Bad>> THEN services ELSE Effect(p, c)
  BY DEF Answer
<1>2. /\ c # "none" /\ pending' = [pending EXCEPT ![p] = "none"]
      /\ UNCHANGED <<does, step, link, tor, got, inBlock, leaving, clean>>
  BY DEF Answer
<1>3. TypeOK /\ ProcInv(p) /\ c \in TorCommands /\ tor[p] \in TorPeer
  BY <1>2 DEF TorInv, TypeOK
<1>4. ReplyTo(p, c, reply) /\ reply \in Seq(Line)
  BY <1>3, RepliesReply DEF ReplyTo
<1>5. /\ pending'[p] = "none"
      /\ wire'[p] = IF link[p] = "up" THEN reply ELSE <<>>
  BY <1>1, <1>2, <1>3 DEF TypeOK
<1>6. link[p] \in {"up", "half"} /\ (link[p] = "up" => c = step[p])
  BY <1>2, <1>3 DEF ProcInv, Asked, Place
<1> HIDE DEF c
<1>7. /\ services' \subseteq Service
      /\ \A q \in Procs \ {p} : ServicesOf(q)' = ServicesOf(q)
      /\ reply # <<Bad>> /\ c = "ADD_ONION" /\ does[p] # "init" => Mine(p) \in ServicesOf(p)'
      /\ c = "ADD_ONION" \/ ServicesOf(p)' = ServicesOf(p) \/ ServicesOf(p)' = {}
      /\ c = "DEL_ONION" => ServicesOf(p)' = {}
  <2>1. services \subseteq Service /\ Onion(p) \in {"mine", "new"}
    BY <1>3 DEF TypeOK, Onion
  <2>2. CASE services' = services
    <3>1. \A q \in Procs : ServicesOf(q)' = ServicesOf(q)
      BY <2>2, SameServices
    <3>2. c = "DEL_ONION" => ServicesOf(p) = {}
      <4> SUFFICES ASSUME c = "DEL_ONION" PROVE ServicesOf(p) = {}
        OBVIOUS
      <4>1. CASE reply = <<Bad>>
        BY <1>1, <4>1, DeletedIsNotBad DEF Replies
      <4>2. CASE reply # <<Bad>>
        <5>1. services' = services \ ServicesOf(p)
          BY <1>1, <4>2 DEF Effect
        <5>2. QED
          BY <2>2, <5>1 DEF ServicesOf
      <4>3. QED
        BY <4>1, <4>2
    <3>3. reply # <<Bad>> /\ c = "ADD_ONION" /\ does[p] # "init" => Mine(p) \in ServicesOf(p)
      <4> SUFFICES ASSUME reply # <<Bad>>, c = "ADD_ONION", does[p] # "init"
                   PROVE  Mine(p) \in ServicesOf(p)
        OBVIOUS
      <4>1. services' = services \cup {Mine(p)}
        BY <1>1 DEF Effect, Onion, Mine
      <4>2. Mine(p).owner = p
        BY DEF Mine
      <4>3. QED
        BY <2>2, <4>1, <4>2 DEF ServicesOf
    <3>4. QED
      BY <2>1, <2>2, <3>1, <3>2, <3>3
  <2>3. CASE c = "ADD_ONION" /\ services' = services \cup {[owner |-> p, onion |-> Onion(p)]}
    <3>1. does[p] # "init" => Onion(p) = "mine"
      BY DEF Onion
    <3> DEFINE new == [owner |-> p, onion |-> Onion(p)]
    <3>2. /\ services \cup {new} \subseteq Service
          /\ \A q \in Procs \ {p} : {s \in services \cup {new} : s.owner = q} = ServicesOf(q)
          /\ new \in {s \in services \cup {new} : s.owner = p}
      <4>1. new \in Service /\ new.owner = p
        BY <2>1 DEF Service
      <4> HIDE DEF new
      <4>2. QED
        BY <2>1, <4>1, AddService
    <3>3. does[p] # "init" => new = Mine(p)
      BY <3>1 DEF Mine
    <3> HIDE DEF new
    <3>4. services' = services \cup {new} /\ c = "ADD_ONION"
      BY <2>3 DEF new
    <3>5. \A q \in Procs : ServicesOf(q)' = {s \in services \cup {new} : s.owner = q}
      BY <3>4 DEF ServicesOf
    <3>6. QED
      BY <3>2, <3>3, <3>4, <3>5
  <2>4. CASE c = "DEL_ONION" /\ services' = services \ ServicesOf(p)
    BY <2>1, <2>4, RemoveServices DEF ServicesOf
  <2>5. QED
    BY <1>1, <2>2, <2>3, <2>4 DEF Effect
<1>8. TypeOK'
  BY <1>1, <1>2, <1>3, <1>4, <1>7, Silence DEF TypeOK
<1>9. \A q \in Procs \ {p} : Untouched(q)
  BY <1>1, <1>2, <1>7 DEF Untouched
<1>10. Place(p)' /\ Asked(p)' /\ Trusted(p)'
  BY <1>2, <1>3, <1>5, <1>6 DEF ProcInv, Place, Asked, Trusted, TorCommands
<1>11. Heard(p)'
  BY <1>2, <1>3, <1>4, <1>5, <1>6, Silence DEF ProcInv, Heard, ReplyTo
<1>12. Published(p)'
  <2>1. step[p] # "idle" => step[p] = c /\ link[p] = "up"
    BY <1>2, <1>3, <1>6 DEF ProcInv, Asked, Place, c
  <2>2. ~clean[p]
    BY <1>2, <1>3 DEF ProcInv, Published, c
  <2>3. QED
    BY <1>2, <1>3, <1>5, <1>6, <1>7, <2>1, <2>2 DEF Published, TorCommands
<1>13. QED
  BY <1>8, <1>9, <1>10, <1>11, <1>12 DEF Kept, ProcInv

\* Tor closes the connection, or finds it closed, and takes down what it published.
LEMMA CloseStep ==
    ASSUME TorInv, NEW p \in Procs, Close(p) \/ Notice(p)
    PROVE  Kept(p)
<1>1. PICK l \in {"closed", "none"} :
        /\ link' = [link EXCEPT ![p] = l]
        /\ l = "closed" => link[p] = "up"
        /\ l = "none" => link[p] = "half"
  BY DEF Close, Notice
<1>2. /\ pending' = [pending EXCEPT ![p] = "none"]
      /\ services' = services \ ServicesOf(p)
      /\ UNCHANGED <<does, step, tor, got, inBlock, leaving, clean>>
  BY DEF Close, Notice
<1>3. TypeOK /\ ProcInv(p)
  BY DEF TorInv
<1>4. PICK left : /\ wire' = [wire EXCEPT ![p] = left]
                  /\ ReplyTo(p, step[p], left)
                  /\ step[p] \notin TorCommands => left = <<>>
  <2>1. CASE wire' = wire
    BY <1>3, <2>1 DEF ProcInv, Place, Heard, TypeOK
  <2>2. CASE wire' # wire
    <3>1. PICK reply \in Replies(p, pending[p]) :
            \E k \in 1..Len(reply) : wire' = [wire EXCEPT ![p] = SubSeq(reply, 1, k)]
      BY <2>2 DEF Close, Notice
    <3>2. PICK k \in 1..Len(reply) : wire' = [wire EXCEPT ![p] = SubSeq(reply, 1, k)]
      BY <3>1
    <3>3. pending[p] \in TorCommands /\ pending[p] = step[p]
      BY <1>3, <2>2 DEF Close, Notice, TypeOK, ProcInv, Asked, Place
    <3>4. ReplyTo(p, step[p], SubSeq(reply, 1, k))
      BY <1>3, <3>3, RepliesReply, PrefixReply DEF TypeOK
    <3>5. QED
      BY <3>2, <3>3, <3>4
  <2>3. QED
    BY <2>1, <2>2
<1>5. /\ wire'[p] = left /\ link'[p] = l /\ pending'[p] = "none" /\ left \in Seq(Line)
  BY <1>1, <1>2, <1>3, <1>4 DEF TypeOK, ReplyTo
<1>6. /\ services' \subseteq Service /\ ServicesOf(p)' = {}
      /\ \A q \in Procs \ {p} : ServicesOf(q)' = ServicesOf(q)
  <2>1. services \subseteq Service
    BY <1>3 DEF TypeOK
  <2>2. QED
    BY <1>2, <2>1, RemoveServices DEF ServicesOf
<1>7. TypeOK'
  BY <1>1, <1>2, <1>3, <1>4, <1>5, <1>6 DEF TypeOK
<1>8. \A q \in Procs \ {p} : Untouched(q)
  BY <1>1, <1>2, <1>4, <1>6 DEF Untouched
<1>9. Place(p)' /\ Asked(p)' /\ Trusted(p)'
  BY <1>1, <1>2, <1>3, <1>4, <1>5 DEF ProcInv, Place, Asked, Trusted
<1>10. Heard(p)'
  BY <1>2, <1>3, <1>4, <1>5 DEF ProcInv, Heard, ReplyTo
<1>11. Published(p)'
  BY <1>1, <1>2, <1>3, <1>5, <1>6 DEF ProcInv, Published
<1>12. QED
  BY <1>7, <1>8, <1>9, <1>10, <1>11 DEF Kept, ProcInv
-------------------------------------------------------------------------------
(* The theorems. *)

\* The invariant is inductive.
LEMMA TorStep ==
    ASSUME TorInv, [Next]_vars
    PROVE  TorInv'
<1>1. ASSUME NEW p \in Procs, Kept(p)
      PROVE  TorInv'
  BY <1>1, UntouchedKeeps DEF Kept, TorInv
<1>2. CASE Next
  <2>1. PICK p \in Procs : Client(p) \/ User(p) \/ Answer(p) \/ Close(p) \/ Notice(p)
    BY <1>2 DEF Next
  <2>2. Kept(p)
    BY <2>1, ClientStep, AnswerStep, CloseStep
  <2>3. QED
    BY <1>1, <2>2
<1>3. CASE UNCHANGED vars
  <2>1. TypeOK'
    BY <1>3 DEF TorInv, TypeOK, vars
  <2>2. \A q \in Procs : Untouched(q)
    BY <1>3, SameServices DEF Untouched, vars
  <2>3. QED
    BY <2>1, <2>2, UntouchedKeeps DEF TorInv
<1>4. QED
  BY <1>2, <1>3

\* It holds at the start.
LEMMA TorInit ==
    ASSUME Init
    PROVE  TorInv
<1>1. Nobody \in TorPeer
  BY DEF Nobody, TorPeer
<1>2. TypeOK
  BY <1>1, Silence DEF Init, TypeOK, Commands, Steps
<1>3. ASSUME NEW p \in Procs PROVE ProcInv(p)
  <2>1. /\ step[p] = "idle" /\ link[p] = "none" /\ tor[p] = Nobody /\ wire[p] = <<>>
        /\ got[p] = {} /\ pending[p] = "none" /\ ServicesOf(p) = {} /\ clean[p] = FALSE
    BY DEF Init, ServicesOf
  <2>2. Place(p) /\ Asked(p) /\ Trusted(p) /\ Published(p)
    BY <2>1 DEF Place, Asked, Trusted, Published, AfterProof, TorCommands
  <2>3. Heard(p)
    BY <2>1, Silence DEF Heard, ReplyTo
  <2>4. QED
    BY <2>2, <2>3 DEF ProcInv
<1>4. QED
  BY <1>2, <1>3 DEF TorInv

\* Every variable keeps its type, for any processes, with data blocks and without.
THEOREM TypeCorrect == Spec => []TypeOK
<1>1. TorInv => TypeOK
  BY DEF TorInv
<1>2. QED
  BY <1>1, TorInit, TorStep, PTL DEF Spec

\* command and read_reply stay in step: no line of an earlier reply is ever left
\* when the next command is written, whatever the replies are.
THEOREM InStepHolds == Spec => []InStep
<1>1. TorInv => InStep
  BY DEF TorInv, ProcInv, Asked, InStep
<1>2. QED
  BY <1>1, TorInit, TorStep, PTL DEF Spec

\* publish_onion returns only when Tor has published the onion for this very
\* process, for any number of processes of one user.
THEOREM ServingIsPublishedHolds == Spec => []ServingIsPublished
<1>1. TorInv => ServingIsPublished
  <2> SUFFICES ASSUME TorInv, NEW p \in Procs, Serving(p), link[p] # "closed"
               PROVE  Mine(p) \in services
    BY DEF ServingIsPublished, Mine
  <2>1. step[p] \in {"serving", "sending"} /\ ProcInv(p)
    BY DEF Serving, TorInv
  <2>2. link[p] = "up"
    BY <2>1 DEF ProcInv, Place
  <2>3. Mine(p) \in ServicesOf(p)
    BY <2>1, <2>2 DEF ProcInv, Published
  <2>4. QED
    BY <2>3 DEF ServicesOf
<1>2. QED
  BY <1>1, TorInit, TorStep, PTL DEF Spec

\* Who offers SAFECOOKIE gets the private key of the onion only after the proof
\* that authenticate_safecookie checks.
THEOREM KeyOnlyToTorHolds == Spec => []KeyOnlyToTor
<1>1. TorInv => KeyOnlyToTor
  <2> SUFFICES ASSUME TorInv, NEW p \in Procs, pending[p] = "ADD_ONION",
                      tor[p].method = "SAFECOOKIE"
               PROVE  tor[p].knows
    BY DEF KeyOnlyToTor
  <2>1. ProcInv(p) /\ Nobody.method = "other"
    BY DEF TorInv, Nobody
  <2>2. step[p] = "ADD_ONION"
    BY <2>1 DEF ProcInv, Asked, Place
  <2>3. QED
    BY <2>1, <2>2 DEF ProcInv, Trusted, AfterProof
<1>2. QED
  BY <1>1, TorInit, TorStep, PTL DEF Spec

\* A command that ended well has left no onion behind.
THEOREM CleanExitHolds == Spec => []CleanExit
<1>1. TorInv => CleanExit
  BY DEF TorInv, ProcInv, Published, CleanExit
<1>2. QED
  BY <1>1, TorInit, TorStep, PTL DEF Spec
===============================================================================
