--------------------------- MODULE SessionsProofs ---------------------------
(***************************************************************************)
(* What holds of Sessions for every number of connections and characters,  *)
(* every channel capacity and every bound: its types, that every departure *)
(* produces one save record, and that no progress is lost.                 *)
(***************************************************************************)
EXTENDS Sessions, FiniteSetTheorems, SequenceTheorems, TLAPS

\* An ordering of a finite set is a sequence of its elements.
LEMMA OrderingIsSequence ==
    ASSUME NEW S, IsFiniteSet(S), NEW s \in SetToSeqs(S)
    PROVE  s \in Seq(S)
<1>1. Cardinality(S) \in Nat
  BY FS_CardinalityType
<1>2. s \in [1..Cardinality(S) -> S]
  BY DEF SetToSeqs
<1>. QED BY <1>1, <1>2

\* The packets of an ordering of connections are frames, one for each.
LEMMA PushesAreFrames ==
    ASSUME NEW S \in SUBSET Conn, NEW s \in SetToSeqs(S)
    PROVE  /\ Pushes(s) \in Seq(Frame)
           /\ \A i \in DOMAIN Pushes(s) : Pushes(s)[i].do = "push"
<1>1. IsFiniteSet(S)
  BY SessionsAssumption, FS_Subset
<1>2. s \in Seq(S)
  BY <1>1, OrderingIsSequence
<1>3. \A i \in DOMAIN s : s[i] \in Conn
  BY <1>2
<1>4. \A i \in DOMAIN s : Push(s[i]) \in Frame /\ Push(s[i]).do = "push"
  BY <1>3 DEF Push, Frame
<1>5. DOMAIN s = 1..Len(s) /\ Len(s) \in Nat
  BY <1>2
<1>. QED BY <1>4, <1>5 DEF Pushes

-----------------------------------------------------------------------------
(* Type correctness                                                        *)

\* A connection that has chosen no character is not loading one, has no Login
\* command waiting and no player in the world.
NamesKnown ==
    /\ \A c \in Conn : pc[c] \in Loading \/ c \in players => name[c] \in Char
    /\ \A i \in DOMAIN inbox :
          inbox[i].op = "login" => name[inbox[i].c] \in Char

Typed == TypeOK /\ NamesKnown

LEMMA BlankIsRow == Blank \in Row
  BY SessionsAssumption DEF Blank, Uniform, Row

LEMMA UniformIsRow ==
    ASSUME NEW v \in 0..MaxVersion, NEW d \in BOOLEAN
    PROVE  /\ Uniform(v) \in Row
           /\ [Uniform(v) EXCEPT !.dead = d] \in Row
<1>1. Uniform(v) = [stats |-> v, dead |-> FALSE, items |-> v]
  BY DEF Uniform
<1>2. [Uniform(v) EXCEPT !.dead = d] = [stats |-> v, dead |-> d, items |-> v]
  BY <1>1
<1>. QED BY <1>1, <1>2 DEF Row

\* A handler that reads a row part by part holds a row after each part.
LEMMA PartsOfRows ==
    ASSUME NEW r \in Row, NEW q \in Row
    PROVE  /\ [r EXCEPT !.items = q.items] \in Row
           /\ [r EXCEPT !.stats = q.stats, !.dead = q.dead] \in Row
  BY DEF Row

LEMMA CommandsOfConn ==
    ASSUME NEW c \in Conn
    PROVE  /\ [op |-> "login", c |-> c] \in Command
           /\ [op |-> "logout", c |-> c] \in Command
           /\ [op |-> "play", c |-> c] \in Command
           /\ [op |-> "shutdown"] \in Command
  BY DEF Command

\* Sending a command into a channel with room.
LEMMA SendKeepsInbox ==
    ASSUME InboxType, Len(inbox) < InboxCap, NEW m \in Command,
           inbox' = Append(inbox, m)
    PROVE  /\ InboxType'
           /\ \A i \in DOMAIN inbox' : inbox'[i] = m \/ (i \in DOMAIN inbox /\ inbox'[i] = inbox[i])
<1>1. Len(inbox') = Len(inbox) + 1 /\ inbox' \in Seq(Command)
  BY DEF InboxType
<1>. QED BY <1>1, SessionsAssumption DEF InboxType

LEMMA InitTypeOK == Init => Typed
<1>. SUFFICES ASSUME Init PROVE Typed
  OBVIOUS
<1>1. Uniform(1) \in Row
  <2>1. 1 \in 0..MaxVersion
    BY SessionsAssumption
  <2>. QED BY <2>1, UniformIsRow
<1>2. ConnType
  BY BlankIsRow DEF Init, ConnType
<1>3. InboxType /\ StackType
  BY SessionsAssumption DEF Init, InboxType, StackType
<1>4. WorldType
  BY BlankIsRow, SessionsAssumption DEF Init, WorldType
<1>5. DiskType
  BY <1>1 DEF Init, DiskType
<1>6. MainType
  BY SessionsAssumption DEF Init, MainType
<1>7. GhostType
  BY SessionsAssumption DEF Init, GhostType
<1>8. NamesKnown
  BY DEF Init, NamesKnown, Loading
<1>. QED BY <1>2, <1>3, <1>4, <1>5, <1>6, <1>7, <1>8 DEF Typed, TypeOK

\* What a step leaves alone keeps its type.
LEMMA Untouched ==
    ASSUME Typed
    PROVE  /\ UNCHANGED connVars => ConnType'
           /\ UNCHANGED inbox => InboxType'
           /\ UNCHANGED stack => StackType'
           /\ UNCHANGED <<players, state, queued, receiving>> => WorldType'
           /\ UNCHANGED diskVars => DiskType'
           /\ UNCHANGED <<alive, server, faults, crashes>> => MainType'
           /\ UNCHANGED ghostVars => GhostType'
           /\ UNCHANGED <<pc, name, inbox, players>> => NamesKnown'
<1>. USE DEF Typed, TypeOK
<1>1. UNCHANGED connVars => ConnType'
  BY DEF connVars, ConnType
<1>2. UNCHANGED inbox => InboxType'
  BY DEF InboxType
<1>3. UNCHANGED stack => StackType'
  BY DEF StackType
<1>4. UNCHANGED <<players, state, queued, receiving>> => WorldType'
  BY DEF WorldType
<1>5. UNCHANGED diskVars => DiskType'
  BY DEF diskVars, DiskType
<1>6. UNCHANGED <<alive, server, faults, crashes>> => MainType'
  BY DEF MainType
<1>7. UNCHANGED ghostVars => GhostType'
  BY DEF ghostVars, GhostType
<1>8. UNCHANGED <<pc, name, inbox, players>> => NamesKnown'
  BY DEF NamesKnown
<1>. QED BY <1>1, <1>2, <1>3, <1>4, <1>5, <1>6, <1>7, <1>8

\* The steps of one connection handler and of its client.
LEMMA ConnTypeOK ==
    ASSUME Typed, NEW c \in Conn,
           HandlerStep(c) \/ HandlerSend(c) \/ Outside(c)
    PROVE  Typed'
<1>. USE SessionsAssumption DEF Typed, TypeOK
<1>1. ASSUME Reject(c) PROVE Typed'
  <2>1. ConnType'
    BY <1>1 DEF Reject, ConnType, Loading
  <2>2. NamesKnown'
    BY <1>1 DEF Reject, NamesKnown, Loading, ConnType, worldVars, connVars
  <2>. QED BY <1>1, <2>1, <2>2, Untouched DEF Reject, Typed, TypeOK, connVars, worldVars, diskVars, ghostVars
<1>2. ASSUME NEW ch \in Char, LoadStats(c, ch) PROVE Typed'
  <2>1. [Blank EXCEPT !.stats = db[ch].stats, !.dead = db[ch].dead] \in Row
    BY BlankIsRow, PartsOfRows DEF DiskType
  <2>2. (exclusive[ch] /\ ~Busy(ch)) \in BOOLEAN
    OBVIOUS
  <2>3. ConnType'
    BY <1>2, <2>1, <2>2 DEF LoadStats, ConnType, Loading
  <2>4. NamesKnown'
    BY <1>2, <2>1, <2>2 DEF LoadStats, NamesKnown, Loading, ConnType, worldVars, connVars
  <2>5. GhostType'
    BY <1>2, <2>1, <2>2 DEF LoadStats, GhostType, ghostVars
  <2>. QED BY <1>2, <2>3, <2>4, <2>5, Untouched DEF LoadStats, Typed, TypeOK, connVars, worldVars, diskVars, ghostVars
<1>3. ASSUME LoadItems(c) PROVE Typed'
  <2>1. name[c] \in Char
    BY <1>3 DEF LoadItems, NamesKnown, Loading
  <2>2. [save[c] EXCEPT !.items = db[name[c]].items] \in Row
    BY <2>1, PartsOfRows DEF ConnType, DiskType
  <2>3. ConnType'
    BY <1>3, <2>1, <2>2 DEF LoadItems, ConnType, Loading
  <2>4. NamesKnown'
    BY <1>3, <2>1, <2>2 DEF LoadItems, NamesKnown, Loading, ConnType, worldVars, connVars
  <2>5. WorldType'
    BY <1>3, <2>1, <2>2 DEF LoadItems, WorldType, worldVars
  <2>. QED BY <1>3, <2>3, <2>4, <2>5, Untouched DEF LoadItems, Typed, TypeOK, connVars, worldVars, diskVars, ghostVars
<1>4. ASSUME LoadFault(c) PROVE Typed'
  <2>1. name[c] \in Char
    BY <1>4 DEF LoadFault, NamesKnown, Loading
  <2>2. ConnType'
    BY <1>4, <2>1, BlankIsRow DEF LoadFault, ConnType, Loading
  <2>3. NamesKnown'
    BY <1>4, <2>1 DEF LoadFault, NamesKnown, Loading, ConnType, worldVars, connVars
  <2>4. WorldType'
    BY <1>4, <2>1 DEF LoadFault, WorldType, worldVars
  <2>5. MainType'
    BY <1>4, <2>1 DEF LoadFault, MainType
  <2>6. GhostType'
    BY <1>4, <2>1 DEF LoadFault, GhostType, ghostVars
  <2>. QED BY <1>4, <2>2, <2>3, <2>4, <2>5, <2>6, Untouched DEF LoadFault, Typed, TypeOK, connVars, worldVars, diskVars, ghostVars
<1>5. ASSUME SendLogin(c) PROVE Typed'
  <2>1. ConnType'
    BY <1>5 DEF SendLogin, ConnType, Loading
  <2>2. InboxType'
    BY <1>5, SendKeepsInbox, CommandsOfConn DEF SendLogin, InboxType
  <2>3. NamesKnown'
    BY <1>5, SendKeepsInbox, CommandsOfConn DEF SendLogin, NamesKnown, Loading, ConnType, worldVars, connVars
  <2>. QED BY <1>5, <2>1, <2>2, <2>3, Untouched DEF SendLogin, Typed, TypeOK, connVars, worldVars, diskVars, ghostVars
<1>6. ASSUME LoginRefused(c) PROVE Typed'
  <2>1. ConnType'
    BY <1>6 DEF LoginRefused, DropReceiver, ConnType, Loading
  <2>2. WorldType'
    BY <1>6 DEF LoginRefused, DropReceiver, WorldType, worldVars
  <2>3. NamesKnown'
    BY <1>6 DEF LoginRefused, DropReceiver, NamesKnown, Loading, ConnType, worldVars, connVars
  <2>. QED BY <1>6, <2>1, <2>2, <2>3, Untouched DEF LoginRefused, DropReceiver, Typed, TypeOK, connVars, worldVars, diskVars, ghostVars
<1>7. ASSUME BurstSent(c) PROVE Typed'
  <2>1. ConnType'
    BY <1>7 DEF BurstSent, ConnType, Loading
  <2>2. NamesKnown'
    BY <1>7 DEF BurstSent, NamesKnown, Loading, ConnType, worldVars, connVars
  <2>. QED BY <1>7, <2>1, <2>2, Untouched DEF BurstSent, Typed, TypeOK, connVars, worldVars, diskVars, ghostVars
<1>8. ASSUME BurstFailed(c) PROVE Typed'
  <2>1. ConnType'
    BY <1>8 DEF BurstFailed, DropReceiver, ConnType, Loading
  <2>2. WorldType'
    BY <1>8 DEF BurstFailed, DropReceiver, WorldType, worldVars
  <2>3. NamesKnown'
    BY <1>8 DEF BurstFailed, DropReceiver, NamesKnown, Loading, ConnType, worldVars, connVars
  <2>. QED BY <1>8, <2>1, <2>2, <2>3, Untouched DEF BurstFailed, DropReceiver, Typed, TypeOK, connVars, worldVars, diskVars, ghostVars
<1>9. ASSUME ClientCommand(c) PROVE Typed'
  <2>1. InboxType'
    BY <1>9, SendKeepsInbox, CommandsOfConn DEF ClientCommand, InboxType
  <2>2. NamesKnown'
    BY <1>9, SendKeepsInbox, CommandsOfConn DEF ClientCommand, NamesKnown, Loading, ConnType, worldVars, connVars
  <2>. QED BY <1>9, <2>1, <2>2, Untouched DEF ClientCommand, Typed, TypeOK, connVars, worldVars, diskVars, ghostVars
<1>10. ASSUME WriterDrain(c) PROVE Typed'
  <2>1. WorldType'
    BY <1>10 DEF WriterDrain, WorldType, worldVars
  <2>. QED BY <1>10, <2>1, Untouched DEF WriterDrain, Typed, TypeOK, connVars, worldVars, diskVars, ghostVars
<1>11. ASSUME Disconnect(c) PROVE Typed'
  <2>1. ConnType'
    BY <1>11 DEF Disconnect, EndLoops, DropReceiver, ConnType, Loading
  <2>2. WorldType'
    BY <1>11 DEF Disconnect, EndLoops, DropReceiver, WorldType, worldVars
  <2>3. NamesKnown'
    BY <1>11 DEF Disconnect, EndLoops, DropReceiver, NamesKnown, Loading, ConnType, worldVars, connVars
  <2>. QED BY <1>11, <2>1, <2>2, <2>3, Untouched DEF Disconnect, EndLoops, DropReceiver, Typed, TypeOK, connVars, worldVars, diskVars, ghostVars
<1>12. ASSUME ChannelClosed(c) PROVE Typed'
  <2>1. ConnType'
    BY <1>12 DEF ChannelClosed, EndLoops, DropReceiver, ConnType, Loading
  <2>2. WorldType'
    BY <1>12 DEF ChannelClosed, EndLoops, DropReceiver, WorldType, worldVars
  <2>3. NamesKnown'
    BY <1>12 DEF ChannelClosed, EndLoops, DropReceiver, NamesKnown, Loading, ConnType, worldVars, connVars
  <2>. QED BY <1>12, <2>1, <2>2, <2>3, Untouched DEF ChannelClosed, EndLoops, DropReceiver, Typed, TypeOK, connVars, worldVars, diskVars, ghostVars
<1>13. ASSUME SendLogout(c) PROVE Typed'
  <2>1. ConnType'
    BY <1>13 DEF SendLogout, ConnType, Loading
  <2>2. InboxType'
    BY <1>13, SendKeepsInbox, CommandsOfConn DEF SendLogout, InboxType
  <2>3. NamesKnown'
    BY <1>13, SendKeepsInbox, CommandsOfConn DEF SendLogout, NamesKnown, Loading, ConnType, worldVars, connVars
  <2>. QED BY <1>13, <2>1, <2>2, <2>3, Untouched DEF SendLogout, Typed, TypeOK, connVars, worldVars, diskVars, ghostVars
<1>. QED BY <1>1, <1>2, <1>3, <1>4, <1>5, <1>6, <1>7, <1>8, <1>9, <1>10, <1>11, <1>12, <1>13 DEF HandlerStep, HandlerSend, Outside

\* Taking a command out of the channel brings no new one in.
LEMMA ReceiveTakesHead ==
    ASSUME Typed, NEW op, Receive(op)
    PROVE  /\ stack = <<>>
           /\ 1 \in DOMAIN inbox /\ Head(inbox) = inbox[1] /\ inbox[1].op = op
           /\ Head(inbox) \in Command
           /\ op # "shutdown" => Head(inbox).c \in Conn
           /\ InboxType'
           /\ \A i \in DOMAIN inbox' : i + 1 \in DOMAIN inbox /\ inbox'[i] = inbox[i + 1]
<1>. USE DEF Typed, TypeOK, InboxType
<1>1. inbox # <<>> /\ stack = <<>> /\ Head(inbox).op = op
  BY DEF Receive
<1>2. 1 \in DOMAIN inbox /\ Head(inbox) = inbox[1] /\ Head(inbox) \in Command
  BY <1>1
<1>3. op # "shutdown" => Head(inbox).c \in Conn
  BY <1>1, <1>2 DEF Command
<1>4. /\ InboxType'
      /\ \A i \in DOMAIN inbox' : i + 1 \in DOMAIN inbox /\ inbox'[i] = inbox[i + 1]
  <2>1. CASE op = "shutdown"
    <3>1. inbox' = <<>>
      BY <2>1 DEF Receive
    <3>. QED BY <3>1, SessionsAssumption
  <2>2. CASE op # "shutdown"
    <3>1. inbox' = Tail(inbox)
      BY <2>2 DEF Receive
    <3>2. /\ Tail(inbox) \in Seq(Command)
          /\ Len(Tail(inbox)) = Len(inbox) - 1
          /\ \A i \in 1..(Len(inbox) - 1) : Tail(inbox)[i] = inbox[i + 1]
      BY <1>1
    <3>3. /\ DOMAIN Tail(inbox) = 1..(Len(inbox) - 1)
          /\ DOMAIN inbox = 1..Len(inbox)
          /\ Len(inbox) \in Nat
      BY <3>2
    <3>4. \A i \in DOMAIN inbox' : i + 1 \in DOMAIN inbox /\ inbox'[i] = inbox[i + 1]
      BY <3>1, <3>2, <3>3
    <3>5. InboxType'
      BY <3>1, <3>2, <3>3, SessionsAssumption
    <3>. QED BY <3>4, <3>5
  <2>. QED BY <2>1, <2>2
<1>5. inbox[1].op = op
  BY <1>1, <1>2
<1>. QED BY <1>1, <1>2, <1>3, <1>4, <1>5

\* Packets put before the rest of a handler leave the rest as it was.
LEMMA PushesBefore ==
    ASSUME NEW S \in SUBSET Conn, NEW s \in SetToSeqs(S), NEW rest \in Seq(Frame)
    PROVE  /\ Pushes(s) \o rest \in Seq(Frame)
           /\ Len(Pushes(s) \o rest) = Len(Pushes(s)) + Len(rest)
           /\ \A i \in DOMAIN (Pushes(s) \o rest) :
                \/ (Pushes(s) \o rest)[i].do = "push"
                \/ /\ i - Len(Pushes(s)) \in DOMAIN rest
                   /\ (Pushes(s) \o rest)[i] = rest[i - Len(Pushes(s))]
<1>1. /\ Pushes(s) \in Seq(Frame)
      /\ \A i \in DOMAIN Pushes(s) : Pushes(s)[i].do = "push"
  BY PushesAreFrames
<1>. QED BY <1>1

LEMMA FramesOfConn ==
    ASSUME NEW c \in Conn
    PROVE  /\ <<>> \in Seq(Frame)
           /\ \A do \in {"push", "ack", "hurt", "die", "bury"} :
                 <<[do |-> do, c |-> c]>> \in Seq(Frame)
  BY DEF Frame

\* The rest of the running handler is made of frames.
LEMMA TopOfStack ==
    ASSUME StackType, NEW do, Top(do)
    PROVE  /\ 1 \in DOMAIN stack /\ Head(stack) = stack[1] /\ stack[1].do = do
           /\ Head(stack).c \in Conn
           /\ Tail(stack) \in Seq(Frame)
<1>1. stack # <<>> /\ stack \in Seq(Frame)
  BY DEF StackType, Top
<1>2. Head(stack) \in Frame /\ Tail(stack) \in Seq(Frame) /\ 1 \in DOMAIN stack /\ Head(stack) = stack[1]
  BY <1>1
<1>. QED BY <1>2 DEF Top, Frame

\* A character's next version is one it may reach.
LEMMA BumpInRange ==
    ASSUME GhostType, NEW ch \in Char
    PROVE  Bump(ch) \in 1..MaxVersion /\ Bump(ch) \in 0..MaxVersion
  BY SessionsAssumption DEF GhostType, Bump

LEMMA ChangeTyped ==
    ASSUME Typed, NEW c \in players, NEW dead \in BOOLEAN, Change(c, dead)
    PROVE  /\ state' \in [Conn -> Row]
           /\ latest' \in [Char -> 1..MaxVersion]
<1>. USE DEF Typed, TypeOK
<1>1. c \in Conn /\ name[c] \in Char
  BY DEF WorldType, NamesKnown
<1>2. Bump(name[c]) \in 1..MaxVersion /\ Bump(name[c]) \in 0..MaxVersion
  BY <1>1, BumpInRange
<1>3. [Uniform(Bump(name[c])) EXCEPT !.dead = dead] \in Row
  BY <1>2, UniformIsRow
<1>. QED BY <1>1, <1>2, <1>3 DEF Change, WorldType, GhostType

\* A departure writes a whole record and leaves whole rows behind.
LEMMA LeaveTyped ==
    ASSUME Typed, NEW c \in players, NEW rest \in Seq(Frame), Leave(c, rest)
    PROVE  /\ ConnType' /\ StackType' /\ WorldType' /\ DiskType' /\ MainType' /\ GhostType'
           /\ UNCHANGED <<pc, name>> /\ players' \subseteq players
<1>. USE DEF Typed, TypeOK
<1>1. c \in Conn /\ name[c] \in Char /\ state[c] \in Row
  BY DEF WorldType, NamesKnown
<1>2. [name |-> name[c], row |-> state[c]] \in SaveRecord
  BY <1>1 DEF SaveRecord
<1>3. StackType'
  <2>1. PICK S \in SUBSET (players \ {c}) : \E s \in SetToSeqs(S) : stack' = Pushes(s) \o rest
    BY DEF Leave
  <2>2. PICK s \in SetToSeqs(S) : stack' = Pushes(s) \o rest
    BY <2>1
  <2>3. S \in SUBSET Conn
    BY DEF WorldType
  <2>. QED BY <2>2, <2>3, PushesBefore DEF StackType
<1>4. WorldType'
  BY <1>1, BlankIsRow DEF Leave, WorldType
<1>5. DiskType'
  BY <1>2 DEF Leave, DiskType
<1>6. GhostType'
  BY <1>1 DEF Leave, GhostType
<1>7. ConnType' /\ MainType' /\ UNCHANGED <<pc, name>> /\ players' \subseteq players
  BY DEF Leave, connVars, ConnType, MainType
<1>. QED BY <1>3, <1>4, <1>5, <1>6, <1>7

\* Commands the actor takes.
LEMMA LoginTyped ==
    ASSUME Typed, HandleLogin
    PROVE  Typed'
<1>. USE DEF Typed, TypeOK
<1>. DEFINE c == Head(inbox).c
<1>1. /\ Receive("login") /\ c \in Conn /\ InboxType' /\ stack = <<>>
      /\ 1 \in DOMAIN inbox /\ Head(inbox) = inbox[1] /\ inbox[1].op = "login"
      /\ \A i \in DOMAIN inbox' : i + 1 \in DOMAIN inbox /\ inbox'[i] = inbox[i + 1]
  BY ReceiveTakesHead DEF HandleLogin
<1>2. /\ players' = players \union {c}
      /\ state' = [state EXCEPT ![c] = save[c]]
      /\ save' = [save EXCEPT ![c] = Blank]
  BY DEF HandleLogin
<1>3. ConnType'
  BY <1>1, <1>2, BlankIsRow DEF HandleLogin, ConnType
<1>4. StackType'
  <2>1. PICK S \in SUBSET players :
           \E s \in SetToSeqs(S) : stack' = Pushes(s) \o <<[do |-> "ack", c |-> c]>>
    BY DEF HandleLogin
  <2>2. PICK s \in SetToSeqs(S) : stack' = Pushes(s) \o <<[do |-> "ack", c |-> c]>>
    BY <2>1
  <2>3. S \in SUBSET Conn
    BY DEF WorldType
  <2>4. <<[do |-> "ack", c |-> c]>> \in Seq(Frame)
    BY <1>1, FramesOfConn
  <2>. QED BY <2>2, <2>3, <2>4, PushesBefore DEF StackType
<1>5. WorldType'
  BY <1>1, <1>2 DEF HandleLogin, WorldType, ConnType
<1>6. NamesKnown'
  <2>1. name[c] \in Char
    BY <1>1 DEF NamesKnown
  <2>. QED BY <1>1, <1>2, <2>1 DEF HandleLogin, NamesKnown
<1>. QED BY <1>1, <1>3, <1>4, <1>5, <1>6, Untouched DEF HandleLogin, diskVars, ghostVars

LEMMA LogoutTyped ==
    ASSUME Typed, HandleLogout
    PROVE  Typed'
<1>. USE DEF Typed, TypeOK
<1>1. /\ InboxType'
      /\ \A i \in DOMAIN inbox' : i + 1 \in DOMAIN inbox /\ inbox'[i] = inbox[i + 1]
  BY ReceiveTakesHead DEF HandleLogout
<1>2. CASE Head(inbox).c \in players /\ Leave(Head(inbox).c, <<>>)
  <2>1. <<>> \in Seq(Frame)
    OBVIOUS
  <2>2. /\ ConnType' /\ StackType' /\ WorldType' /\ DiskType' /\ MainType' /\ GhostType'
        /\ UNCHANGED <<pc, name>> /\ players' \subseteq players
    BY <1>2, <2>1, LeaveTyped
  <2>3. NamesKnown'
    BY <1>1, <2>2 DEF NamesKnown
  <2>. QED BY <1>1, <2>2, <2>3
<1>3. CASE UNCHANGED <<connVars, worldVars, receiving, alive, diskVars,
                       server, faults, crashes, ghostVars>>
  <2>1. UNCHANGED <<pc, name, players>>
    BY <1>3 DEF connVars, worldVars
  <2>2. NamesKnown'
    BY <1>1, <2>1 DEF NamesKnown
  <2>. QED BY <1>1, <1>3, <2>2, Untouched DEF worldVars
<1>. QED BY <1>2, <1>3 DEF HandleLogout

LEMMA PlayTyped ==
    ASSUME Typed, HandlePlay
    PROVE  Typed'
<1>. USE DEF Typed, TypeOK
<1>. DEFINE c == Head(inbox).c
<1>1. /\ InboxType'
      /\ \A i \in DOMAIN inbox' : i + 1 \in DOMAIN inbox /\ inbox'[i] = inbox[i + 1]
  BY ReceiveTakesHead DEF HandlePlay
<1>2. CASE /\ c \in players
           /\ Change(c, FALSE)
           /\ \E S \in SUBSET players : \E s \in SetToSeqs(S) : stack' = Pushes(s)
           /\ UNCHANGED <<players, queued, exclusive, lossy, records>>
  <2>1. state' \in [Conn -> Row] /\ latest' \in [Char -> 1..MaxVersion]
    BY <1>2, ChangeTyped
  <2>2. WorldType'
    BY <1>2, <2>1 DEF HandlePlay, WorldType
  <2>3. GhostType'
    BY <1>2, <2>1 DEF GhostType
  <2>4. StackType'
    <3>0. PICK S \in SUBSET players : \E s \in SetToSeqs(S) : stack' = Pushes(s)
      BY <1>2
    <3>1. PICK s \in SetToSeqs(S) : stack' = Pushes(s)
      BY <3>0
    <3>2. S \in SUBSET Conn
      BY DEF WorldType
    <3>. QED BY <3>1, <3>2, PushesAreFrames DEF StackType
  <2>5. NamesKnown'
    BY <1>1, <1>2 DEF HandlePlay, NamesKnown, connVars
  <2>. QED BY <1>1, <2>2, <2>3, <2>4, <2>5, Untouched DEF HandlePlay
<1>3. CASE UNCHANGED <<worldVars, ghostVars>>
  <2>1. UNCHANGED <<pc, name, players>>
    BY <1>3 DEF HandlePlay, connVars, worldVars
  <2>2. NamesKnown'
    BY <1>1, <2>1 DEF NamesKnown
  <2>. QED BY <1>1, <1>3, <2>2, Untouched DEF HandlePlay, worldVars
<1>. QED BY <1>2, <1>3 DEF HandlePlay

LEMMA ShutdownTyped ==
    ASSUME Typed, HandleShutdown
    PROVE  Typed'
<1>. USE DEF Typed, TypeOK
<1>1. /\ InboxType'
      /\ \A i \in DOMAIN inbox' : i + 1 \in DOMAIN inbox /\ inbox'[i] = inbox[i + 1]
  BY ReceiveTakesHead DEF HandleShutdown
<1>2. WorldType'
  BY BlankIsRow DEF HandleShutdown, WorldType
<1>3. DiskType'
  <2>1. PICK s \in SetToSeqs(players) :
          saves' = saves \o [i \in 1..Len(s) |-> [name |-> name[s[i]], row |-> state[s[i]]]]
    BY DEF HandleShutdown
  <2>2. s \in Seq(players)
    BY OrderingIsSequence, SessionsAssumption, FS_Subset DEF WorldType
  <2>3. \A i \in 1..Len(s) : [name |-> name[s[i]], row |-> state[s[i]]] \in SaveRecord
    BY <2>2 DEF SaveRecord, NamesKnown, WorldType
  <2>4. [i \in 1..Len(s) |-> [name |-> name[s[i]], row |-> state[s[i]]]] \in Seq(SaveRecord)
    BY <2>2, <2>3
  <2>5. saves' \in Seq(SaveRecord)
    BY <2>1, <2>4, SMTT(30) DEF DiskType
  <2>. QED BY <2>5 DEF HandleShutdown, DiskType
<1>4. MainType'
  BY DEF HandleShutdown, MainType
<1>5. GhostType'
  BY DEF HandleShutdown, GhostType
<1>6. NamesKnown'
  BY <1>1 DEF HandleShutdown, NamesKnown, connVars
<1>. QED BY <1>1, <1>2, <1>3, <1>4, <1>5, <1>6, Untouched DEF HandleShutdown

\* The timers' steps and the rest of a running handler.
LEMMA TickTyped ==
    ASSUME Typed, HandleLight \/ HandleBlow
    PROVE  Typed'
<1>. USE DEF Typed, TypeOK
<1>0. UNCHANGED inbox
  BY DEF HandleLight, HandleBlow, Tick
<1>1. CASE HandleLight
  <2>1. PICK s \in SetToSeqs(players) : stack' = Pushes(s)
    BY <1>1 DEF HandleLight
  <2>2. StackType'
    BY <2>1, PushesAreFrames DEF StackType, WorldType
  <2>. QED BY <1>0, <1>1, <2>2, Untouched DEF HandleLight, connVars
<1>2. CASE HandleBlow
  <2>1. PICK v \in players, dead \in BOOLEAN :
          /\ Change(v, dead)
          /\ \E S \in SUBSET (players \ {v}) : \E s \in SetToSeqs(S \union {v}) :
                stack' = Pushes(s) \o <<[do |-> "hurt", c |-> v]>>
    BY <1>2 DEF HandleBlow
  <2>2. PICK S \in SUBSET (players \ {v}) : \E s \in SetToSeqs(S \union {v}) :
                stack' = Pushes(s) \o <<[do |-> "hurt", c |-> v]>>
    BY <2>1
  <2>3. PICK s \in SetToSeqs(S \union {v}) : stack' = Pushes(s) \o <<[do |-> "hurt", c |-> v]>>
    BY <2>2
  <2>4. v \in Conn /\ S \union {v} \in SUBSET Conn
    BY DEF WorldType
  <2>5. <<[do |-> "hurt", c |-> v]>> \in Seq(Frame)
    BY <2>4, FramesOfConn
  <2>6. StackType'
    BY <2>3, <2>4, <2>5, PushesBefore DEF StackType
  <2>7. state' \in [Conn -> Row] /\ latest' \in [Char -> 1..MaxVersion]
    BY <2>1, ChangeTyped
  <2>8. WorldType'
    BY <1>2, <2>7 DEF HandleBlow, WorldType
  <2>9. GhostType'
    BY <1>2, <2>7 DEF HandleBlow, GhostType
  <2>. QED BY <1>0, <1>2, <2>6, <2>8, <2>9, Untouched DEF HandleBlow, connVars
<1>. QED BY <1>1, <1>2

LEMMA PushTyped ==
    ASSUME Typed, PushSent \/ PushSkipped \/ Reap \/ Ack
    PROVE  Typed'
<1>. USE DEF Typed, TypeOK
<1>0. /\ 1 \in DOMAIN stack /\ Head(stack) = stack[1]
      /\ Head(stack).c \in Conn
      /\ Tail(stack) \in Seq(Frame)
  BY TopOfStack DEF PushSent, PushSkipped, Reap, Ack
<1>1. CASE PushSent
  <2>1. StackType'
    BY <1>0, <1>1 DEF PushSent, Pop, StackType
  <2>2. WorldType'
    BY <1>0, <1>1, SessionsAssumption DEF PushSent, WorldType
  <2>. QED BY <1>1, <2>1, <2>2, Untouched DEF PushSent, connVars
<1>2. CASE PushSkipped
  <2>1. StackType'
    BY <1>0, <1>2 DEF PushSkipped, Pop, StackType
  <2>. QED BY <1>2, <2>1, Untouched DEF PushSkipped, connVars
<1>3. CASE Reap
  <2>1. Head(stack).c \in players /\ Leave(Head(stack).c, Tail(stack)) /\ UNCHANGED inbox
    BY <1>3 DEF Reap
  <2>2. /\ ConnType' /\ StackType' /\ WorldType' /\ DiskType' /\ MainType' /\ GhostType'
        /\ UNCHANGED <<pc, name>> /\ players' \subseteq players
    BY <1>0, <2>1, LeaveTyped
  <2>3. NamesKnown'
    BY <2>1, <2>2 DEF NamesKnown
  <2>. QED BY <2>1, <2>2, <2>3, Untouched
<1>4. CASE Ack
  <2>1. StackType'
    BY <1>0, <1>4 DEF Ack, Pop, StackType
  <2>2. ConnType'
    BY <1>0, <1>4 DEF Ack, ConnType
  <2>3. NamesKnown'
    BY <1>0, <1>4 DEF Ack, NamesKnown, ConnType, Loading
  <2>. QED BY <1>4, <2>1, <2>2, <2>3, Untouched DEF Ack
<1>. QED BY <1>1, <1>2, <1>3, <1>4

LEMMA DeathTyped ==
    ASSUME Typed, Hurt \/ Die \/ Bury
    PROVE  Typed'
<1>. USE DEF Typed, TypeOK
<1>. DEFINE v == Head(stack).c
<1>0. v \in Conn /\ Tail(stack) \in Seq(Frame)
  BY TopOfStack DEF Hurt, Die, Bury
<1>1. CASE Hurt
  <2>1. CASE Pop
    <3>1. StackType'
      BY <1>0, <2>1 DEF Pop, StackType
    <3>. QED BY <1>1, <3>1, Untouched DEF Hurt, connVars
  <2>2. CASE \E S \in SUBSET (players \ {v}) : \E s \in SetToSeqs(S \union {v}) :
                stack' = <<Push(v)>> \o Pushes(s) \o
                         (IF state[v].dead THEN <<[do |-> "die", c |-> v]>>
                                           ELSE <<>>)
    <3>. DEFINE rest == IF state[v].dead THEN <<[do |-> "die", c |-> v]>> ELSE <<>>
    <3>1. PICK S \in SUBSET (players \ {v}) : \E s \in SetToSeqs(S \union {v}) :
                stack' = <<Push(v)>> \o Pushes(s) \o rest
      BY <2>2
    <3>2. PICK s \in SetToSeqs(S \union {v}) : stack' = <<Push(v)>> \o Pushes(s) \o rest
      BY <3>1
    <3>3. S \union {v} \in SUBSET Conn
      BY <1>0 DEF WorldType
    <3>4. rest \in Seq(Frame)
      BY <1>0, FramesOfConn
    <3>5. <<Push(v)>> \in Seq(Frame)
      BY <1>0 DEF Push, Frame
    <3>6. Pushes(s) \in Seq(Frame)
      BY <3>3, PushesAreFrames
    <3>. HIDE DEF rest
    <3>7. StackType'
      BY <3>2, <3>4, <3>5, <3>6 DEF StackType
    <3>. QED BY <1>1, <3>7, Untouched DEF Hurt, connVars
  <2>. QED BY <1>1, <2>1, <2>2 DEF Hurt
<1>2. CASE Die
  <2>1. WorldType'
    <3>1. queued' \in [Conn -> 0..PushCap]
      <4>1. CASE queued' = queued
        BY <4>1 DEF WorldType
      <4>2. CASE queued[v] < PushCap /\ queued' = [queued EXCEPT ![v] = @ + 1]
        BY <1>0, <4>2, SessionsAssumption DEF WorldType
      <4>. QED BY <1>2, <4>1, <4>2 DEF Die
    <3>. QED BY <1>2, <3>1 DEF Die, WorldType
  <2>2. CASE Pop
    <3>1. StackType'
      BY <1>0, <2>2 DEF Pop, StackType
    <3>. QED BY <1>2, <2>1, <3>1, Untouched DEF Die, connVars
  <2>3. CASE \E S \in SUBSET (players \ {v}) : \E s \in SetToSeqs(S) :
                stack' = Pushes(s) \o <<[do |-> "bury", c |-> v]>>
    <3>1. PICK S \in SUBSET (players \ {v}) : \E s \in SetToSeqs(S) :
                stack' = Pushes(s) \o <<[do |-> "bury", c |-> v]>>
      BY <2>3
    <3>2. PICK s \in SetToSeqs(S) : stack' = Pushes(s) \o <<[do |-> "bury", c |-> v]>>
      BY <3>1
    <3>3. S \in SUBSET Conn /\ <<[do |-> "bury", c |-> v]>> \in Seq(Frame)
      BY <1>0, FramesOfConn DEF WorldType
    <3>4. StackType'
      BY <3>2, <3>3, PushesBefore DEF StackType
    <3>. QED BY <1>2, <2>1, <3>4, Untouched DEF Die, connVars
  <2>. QED BY <1>2, <2>2, <2>3 DEF Die
<1>3. CASE Bury
  <2>1. StackType'
    BY <1>0, <1>3 DEF Bury, Pop, StackType
  <2>2. UNCHANGED <<connVars, inbox, queued, receiving, alive, writing, db,
                    server, faults, crashes, exclusive, lossy>>
    BY <1>3 DEF Bury
  <2>3. CASE UNCHANGED <<players, state, saves, latest, records>>
    BY <2>1, <2>2, <2>3, Untouched DEF connVars, diskVars, ghostVars
  <2>4. CASE v \in players /\ ~UNCHANGED <<players, state, saves, latest, records>>
    <3>. DEFINE n == Bump(name[v])
    <3>1. /\ players' = players \ {v}
          /\ state' = [state EXCEPT ![v] = Blank]
          /\ saves' = Append(saves, [name |-> name[v], row |-> Uniform(n)])
          /\ latest' = [latest EXCEPT ![name[v]] = n]
          /\ records' = [records EXCEPT ![v] = @ + 1]
      BY <1>3, <2>4 DEF Bury
    <3>2. name[v] \in Char
      BY <1>0, <2>4 DEF NamesKnown
    <3>3. n \in 1..MaxVersion /\ n \in 0..MaxVersion
      BY <3>2, BumpInRange
    <3>4. [name |-> name[v], row |-> Uniform(n)] \in SaveRecord
      BY <3>2, <3>3, UniformIsRow DEF SaveRecord
    <3>. HIDE DEF n
    <3>5. WorldType'
      BY <1>0, <2>2, <3>1, BlankIsRow DEF WorldType
    <3>6. DiskType'
      BY <2>2, <3>1, <3>4 DEF DiskType
    <3>7. GhostType'
      BY <1>0, <2>2, <3>1, <3>2, <3>3 DEF GhostType
    <3>8. NamesKnown'
      BY <2>2, <3>1 DEF NamesKnown, connVars
    <3>. QED BY <2>1, <2>2, <3>5, <3>6, <3>7, <3>8, Untouched
  <2>. QED BY <1>3, <2>3, <2>4 DEF Bury
<1>. QED BY <1>1, <1>2, <1>3

\* The save worker, the main task and the crash.
LEMMA ServerTyped ==
    ASSUME Typed, Worker \/ Main \/ Crash
    PROVE  Typed'
<1>. USE DEF Typed, TypeOK
<1>1. CASE SaveStats
  <2>1. Head(saves) \in SaveRecord /\ Tail(saves) \in Seq(SaveRecord)
    BY <1>1 DEF SaveStats, DiskType
  <2>. DEFINE r == Head(saves)
  <2>2. r.name \in Char /\ r.row \in Row
    BY <2>1 DEF SaveRecord
  <2>3. [db[r.name] EXCEPT !.stats = r.row.stats, !.dead = r.row.dead] \in Row
    BY <2>2, PartsOfRows DEF DiskType
  <2>4. db' = [db EXCEPT ![r.name] = [db[r.name] EXCEPT !.stats = r.row.stats, !.dead = r.row.dead]]
    BY <1>1, <2>2 DEF SaveStats, DiskType
  <2>. HIDE DEF r
  <2>5. db' \in [Char -> Row]
    BY <2>2, <2>3, <2>4 DEF DiskType
  <2>6. DiskType'
    BY <1>1, <2>1, <2>5 DEF SaveStats, DiskType
  <2>. QED BY <1>1, <2>6, Untouched DEF SaveStats, connVars, worldVars
<1>2. CASE SaveItems
  <2>1. Head(writing) \in SaveRecord
    BY <1>2 DEF SaveItems, DiskType
  <2>. DEFINE r == Head(writing)
  <2>2. r.name \in Char /\ r.row \in Row
    BY <2>1 DEF SaveRecord
  <2>3. [db[r.name] EXCEPT !.items = r.row.items] \in Row
    BY <2>2, PartsOfRows DEF DiskType
  <2>4. db' = [db EXCEPT ![r.name] = [db[r.name] EXCEPT !.items = r.row.items]]
    BY <1>2, <2>2 DEF SaveItems, DiskType
  <2>. HIDE DEF r
  <2>5. db' \in [Char -> Row]
    BY <2>2, <2>3, <2>4 DEF DiskType
  <2>6. DiskType'
    BY <1>2, <2>5 DEF SaveItems, DiskType
  <2>. QED BY <1>2, <2>6, Untouched DEF SaveItems, connVars, worldVars
<1>3. CASE SaveFault
  <2>1. Pipeline \in Seq(SaveRecord) /\ Pipeline # <<>>
    BY <1>3 DEF SaveFault, Pipeline, DiskType
  <2>2. Head(Pipeline) \in SaveRecord
    BY <2>1
  <2>3. Head(Pipeline).name \in Char
    BY <2>2 DEF SaveRecord
  <2>4. writing = <<>> => saves # <<>>
    BY <1>3 DEF SaveFault, Pipeline
  <2>5. DiskType'
    BY <1>3, <2>4 DEF SaveFault, DiskType
  <2>6. GhostType'
    BY <1>3, <2>3 DEF SaveFault, GhostType
  <2>7. MainType'
    BY <1>3, SessionsAssumption DEF SaveFault, MainType
  <2>. QED BY <1>3, <2>5, <2>6, <2>7, Untouched DEF SaveFault, connVars, worldVars
<1>4. CASE Signal
  <2>1. MainType'
    BY <1>4 DEF Signal, MainType
  <2>. QED BY <1>4, <2>1, Untouched DEF Signal, connVars, worldVars
<1>5. CASE SendShutdown
  <2>1. [op |-> "shutdown"] \in Command
    BY DEF Command
  <2>2. /\ InboxType'
        /\ \A i \in DOMAIN inbox' : inbox'[i] = [op |-> "shutdown"]
                                    \/ (i \in DOMAIN inbox /\ inbox'[i] = inbox[i])
    BY <1>5, <2>1, SendKeepsInbox DEF SendShutdown
  <2>3. NamesKnown'
    BY <1>5, <2>2 DEF SendShutdown, NamesKnown, connVars, worldVars
  <2>. QED BY <1>5, <2>2, <2>3, Untouched DEF SendShutdown, worldVars
<1>6. CASE Exit
  <2>1. MainType'
    BY <1>6 DEF Exit, MainType
  <2>. QED BY <1>6, <2>1, Untouched DEF Exit, connVars, worldVars
<1>7. CASE Crash
  <2>1. ConnType'
    BY <1>7, BlankIsRow DEF Crash, ConnType
  <2>2. InboxType' /\ StackType'
    BY <1>7, SessionsAssumption DEF Crash, InboxType, StackType
  <2>3. WorldType'
    BY <1>7, BlankIsRow, SessionsAssumption DEF Crash, WorldType
  <2>4. DiskType'
    BY <1>7 DEF Crash, DiskType
  <2>5. MainType'
    BY <1>7, SessionsAssumption DEF Crash, MainType
  <2>6. GhostType'
    <3>. DEFINE lost(ch) == \/ lossy[ch] \/ PendingSave(ch)
                            \/ \E c \in players : name[c] = ch
    <3>1. \A ch \in Char : lost(ch) \in BOOLEAN
      BY DEF GhostType
    <3>2. lossy' = [ch \in Char |-> lost(ch)]
      BY <1>7 DEF Crash
    <3>. HIDE DEF lost
    <3>3. lossy' \in [Char -> BOOLEAN]
      BY <3>1, <3>2
    <3>. QED BY <1>7, <3>3 DEF Crash, GhostType
  <2>7. NamesKnown'
    BY <1>7 DEF Crash, NamesKnown, Loading, ConnType
  <2>. QED BY <2>1, <2>2, <2>3, <2>4, <2>5, <2>6, <2>7
<1>. QED BY <1>1, <1>2, <1>3, <1>4, <1>5, <1>6, <1>7 DEF Worker, Main

LEMMA StepTyped == Typed /\ [Next]_vars => Typed'
<1>. SUFFICES ASSUME Typed, [Next]_vars PROVE Typed'
  OBVIOUS
<1>1. ASSUME NEW c \in Conn, HandlerStep(c) \/ HandlerSend(c) \/ Outside(c)
      PROVE  Typed'
  BY <1>1, ConnTypeOK
<1>2. CASE HandleCommand
  BY <1>2, LoginTyped, LogoutTyped, PlayTyped, ShutdownTyped DEF HandleCommand
<1>3. CASE Actor /\ ~HandleCommand
  BY <1>3, TickTyped, PushTyped, DeathTyped DEF Actor
<1>4. CASE Worker \/ Main \/ Crash
  BY <1>4, ServerTyped
<1>5. CASE UNCHANGED vars
  BY <1>5, Untouched DEF vars, worldVars, Typed, TypeOK, connVars
<1>. QED BY <1>1, <1>2, <1>3, <1>4, <1>5 DEF Next, Step, Exited

LEMMA AlwaysTyped == Spec => []Typed
  BY InitTypeOK, StepTyped, PTL DEF Spec

\* Type correctness, for every number of connections and characters and every
\* capacity: the command channel of the actor and the push channel of every
\* session stay within their bounds, every row and save record is whole and
\* names a character, though handlers, actor and save worker run concurrently.
THEOREM TypeCorrect == Spec => []TypeOK
<1>1. Typed => TypeOK
  BY DEF Typed
<1>. QED BY <1>1, AlwaysTyped, PTL

(***************************************************************************)
(* One record per departure.                                               *)
(*                                                                         *)
(* What makes OneRecordPerDeparture inductive is that a connection's entry *)
(* into the world can happen once: its Login command is in the channel at  *)
(* most once and only while the handler waits for the reply, and the reply *)
(* comes after the player was put into the world.                          *)
(***************************************************************************)

\* The player of c has been put into the world, and may have left again.
Entered(c) == c \in players \/ records[c] = 1

\* The same after a step.
EnteredThen(c) == c \in players' \/ records'[c] = 1

RecordsCount ==
    \A c \in Conn :
        /\ records[c] \in {0, 1}
        /\ c \in players => records[c] = 0
        /\ pc[c] \in {"idle", "loadItems", "loginSend"} => c \notin players /\ records[c] = 0
        /\ pc[c] \in {"burst", "live", "logoutSend"} => Entered(c)

\* A Login command in the channel is the only one of its connection, whose
\* player has never been in the world.
LoginsFresh ==
    \A i \in DOMAIN inbox : inbox[i].op = "login" =>
        /\ pc[inbox[i].c] = "loginWait"
        /\ inbox[i].c \notin players
        /\ records[inbox[i].c] = 0
        /\ \A j \in DOMAIN inbox :
              inbox[j].op = "login" /\ inbox[j].c = inbox[i].c => j = i

\* The reply of a Login is the last thing its handler does.
AcksDue ==
    \A i \in DOMAIN stack : stack[i].do = "ack" =>
        /\ i = Len(stack)
        /\ pc[stack[i].c] = "loginWait"
        /\ Entered(stack[i].c)

\* When the actor has stopped it has nothing left to do.
StoppedIdle == ~alive => inbox = <<>> /\ stack = <<>>

RecordsInv == RecordsCount /\ LoginsFresh /\ AcksDue /\ StoppedIdle

Inv == Typed /\ RecordsInv

LEMMA InitInv == Init => Inv
<1>1. Init => RecordsCount
  BY DEF Init, RecordsCount
<1>2. Init => LoginsFresh /\ AcksDue /\ StoppedIdle
  BY DEF Init, LoginsFresh, AcksDue, StoppedIdle
<1>. QED BY <1>1, <1>2, InitTypeOK DEF Inv, RecordsInv

\* Inv does not depend on what is queued, stored or saved.
LEMMA InvUntouched ==
    ASSUME Inv, Typed', UNCHANGED <<pc, inbox, stack, players, alive, records>>
    PROVE  Inv'
BY DEF Inv, RecordsInv, RecordsCount, LoginsFresh, AcksDue, StoppedIdle, Entered

-----------------------------------------------------------------------------
(* Steps of the connection handlers                                        *)

\* A handler moves on from a point other than the wait for the login reply,
\* and may send the actor a command that is not a Login.
LEMMA HandlerMoves ==
    ASSUME Inv, Typed', NEW c \in Conn, NEW q,
           UNCHANGED <<stack, players, alive, records>>,
           pc' = [pc EXCEPT ![c] = q],
           pc[c] # "loginWait" \/ ~alive,
           q \in {"idle", "loadItems", "loginSend"} =>
               pc[c] \in {"idle", "loadItems", "loginSend"},
           q \in {"burst", "live", "logoutSend"} =>
               pc[c] \in {"burst", "live", "logoutSend"},
           \/ inbox' = inbox
           \/ /\ alive
              /\ \E m \in Command : m.op # "login" /\ inbox' = Append(inbox, m)
    PROVE  Inv'
<1>. USE DEF Inv, RecordsInv
<1>0. pc \in [Conn -> {"idle", "burst", "live", "logoutSend", "closed"} \union Loading]
      /\ inbox \in Seq(Command) /\ stack \in Seq(Frame)
  BY DEF Typed, TypeOK, ConnType, InboxType, StackType
<1>1. RecordsCount'
  BY <1>0 DEF RecordsCount, Entered
<1>2. LoginsFresh'
  <2>1. CASE inbox' = inbox
    BY <1>0, <2>1 DEF LoginsFresh, StoppedIdle, Command
  <2>2. ASSUME alive, NEW m \in Command, m.op # "login", inbox' = Append(inbox, m)
        PROVE  LoginsFresh'
    <3>1. /\ DOMAIN inbox = 1..Len(inbox) /\ Len(inbox) \in Nat
          /\ DOMAIN inbox' = 1..(Len(inbox) + 1)
          /\ inbox'[Len(inbox) + 1] = m
          /\ \A i \in DOMAIN inbox : inbox'[i] = inbox[i]
      BY <1>0, <2>2
    <3>2. \A i \in DOMAIN inbox' : inbox'[i].op = "login" =>
              i \in DOMAIN inbox /\ inbox'[i] = inbox[i]
      <4>1. \A i \in DOMAIN inbox' : i \in DOMAIN inbox \/ i = Len(inbox) + 1
        BY <3>1
      <4>2. inbox'[Len(inbox) + 1].op # "login"
        BY <2>2, <3>1
      <4>. QED BY <3>1, <4>1, <4>2
    <3>3. \A i \in DOMAIN inbox : inbox[i].op = "login" => inbox[i].c # c
      BY <2>2 DEF LoginsFresh
    <3>. QED BY <1>0, <3>2, <3>3 DEF LoginsFresh
  <2>. QED BY <2>1, <2>2
<1>3. AcksDue'
  BY <1>0 DEF AcksDue, StoppedIdle, Entered, Frame
<1>4. StoppedIdle'
  BY DEF StoppedIdle
<1>. QED BY <1>1, <1>2, <1>3, <1>4

LEMMA LoginSent ==
    ASSUME Inv, Typed', NEW c \in Conn, SendLogin(c)
    PROVE  Inv'
<1>. USE DEF Inv, RecordsInv
<1>0. pc \in [Conn -> {"idle", "burst", "live", "logoutSend", "closed"} \union Loading]
      /\ inbox \in Seq(Command) /\ stack \in Seq(Frame)
  BY DEF Typed, TypeOK, ConnType, InboxType, StackType
<1>1. /\ pc[c] = "loginSend" /\ alive
      /\ pc' = [pc EXCEPT ![c] = "loginWait"]
      /\ UNCHANGED <<stack, players, alive, records>>
      /\ inbox' = Append(inbox, [op |-> "login", c |-> c])
  BY DEF SendLogin, worldVars, ghostVars
<1>2. RecordsCount'
  BY <1>0, <1>1 DEF RecordsCount, Entered
<1>3. LoginsFresh'
  <2>1. /\ DOMAIN inbox = 1..Len(inbox) /\ Len(inbox) \in Nat
        /\ DOMAIN inbox' = 1..(Len(inbox) + 1)
        /\ inbox'[Len(inbox) + 1] = [op |-> "login", c |-> c]
        /\ \A i \in DOMAIN inbox : inbox'[i] = inbox[i]
    BY <1>0, <1>1
  <2>2. \A i \in DOMAIN inbox : inbox[i].op = "login" => inbox[i].c # c
    BY <1>1 DEF LoginsFresh
  <2>3. c \notin players /\ records[c] = 0 /\ pc'[c] = "loginWait"
    BY <1>0, <1>1 DEF RecordsCount
  <2>4. \A i \in DOMAIN inbox' : \/ i \in DOMAIN inbox /\ inbox'[i] = inbox[i]
                                 \/ i = Len(inbox) + 1 /\ inbox'[i].c = c
    BY <2>1
  <2>5. ASSUME NEW i \in DOMAIN inbox', inbox'[i].op = "login"
        PROVE  /\ pc'[inbox'[i].c] = "loginWait"
               /\ inbox'[i].c \notin players'
               /\ records'[inbox'[i].c] = 0
               /\ \A j \in DOMAIN inbox' :
                     inbox'[j].op = "login" /\ inbox'[j].c = inbox'[i].c => j = i
    <3>1. CASE i \in DOMAIN inbox /\ inbox'[i] = inbox[i]
      <4>1. inbox[i].c # c /\ inbox[i].op = "login"
        BY <2>2, <2>5, <3>1
      <4>2. \A j \in DOMAIN inbox' :
                inbox'[j].op = "login" /\ inbox'[j].c = inbox'[i].c => j = i
        BY <2>4, <3>1, <4>1 DEF LoginsFresh
      <4>. QED BY <1>0, <1>1, <3>1, <4>1, <4>2 DEF LoginsFresh
    <3>2. CASE i = Len(inbox) + 1 /\ inbox'[i].c = c
      BY <1>1, <2>2, <2>3, <2>4, <3>2
    <3>. QED BY <2>4, <3>1, <3>2
  <2>. QED BY <2>5 DEF LoginsFresh
<1>4. AcksDue'
  BY <1>0, <1>1 DEF AcksDue, Entered, Frame
<1>5. StoppedIdle'
  BY <1>1 DEF StoppedIdle
<1>. QED BY <1>2, <1>3, <1>4, <1>5

LEMMA ConnInv ==
    ASSUME Inv, Typed', NEW c \in Conn,
           HandlerStep(c) \/ HandlerSend(c) \/ Outside(c)
    PROVE  Inv'
<1>0. pc \in [Conn -> {"idle", "burst", "live", "logoutSend", "closed"} \union Loading]
  BY DEF Inv, Typed, TypeOK, ConnType
<1>. USE DEF connVars, worldVars, ghostVars
<1>1. CASE Reject(c)
  BY <1>1, HandlerMoves DEF Reject
<1>2. ASSUME NEW ch \in Char, LoadStats(c, ch) PROVE Inv'
  BY <1>2, HandlerMoves DEF LoadStats
<1>3. CASE LoadItems(c)
  BY <1>3, HandlerMoves DEF LoadItems
<1>4. CASE LoadFault(c)
  BY <1>4, HandlerMoves DEF LoadFault
<1>5. CASE SendLogin(c)
  BY <1>5, LoginSent
<1>6. CASE LoginRefused(c)
  BY <1>6, HandlerMoves DEF LoginRefused
<1>7. CASE BurstSent(c)
  BY <1>7, HandlerMoves DEF BurstSent
<1>8. CASE BurstFailed(c)
  BY <1>8, HandlerMoves DEF BurstFailed
<1>9. CASE ClientCommand(c)
  <2>1. [op |-> "play", c |-> c] \in Command /\ [op |-> "play", c |-> c].op # "login"
    BY CommandsOfConn
  <2>2. pc' = [pc EXCEPT ![c] = "live"]
    BY <1>0, <1>9 DEF ClientCommand
  <2>. QED BY <1>9, <2>1, <2>2, HandlerMoves DEF ClientCommand
<1>10. CASE WriterDrain(c)
  BY <1>10, InvUntouched DEF WriterDrain
<1>11. CASE Disconnect(c) \/ ChannelClosed(c)
  BY <1>11, HandlerMoves DEF Disconnect, ChannelClosed, EndLoops
<1>12. CASE SendLogout(c)
  <2>1. [op |-> "logout", c |-> c] \in Command /\ [op |-> "logout", c |-> c].op # "login"
    BY CommandsOfConn
  <2>. QED BY <1>12, <2>1, HandlerMoves DEF SendLogout
<1>. QED
  BY <1>1, <1>2, <1>3, <1>4, <1>5, <1>6, <1>7, <1>8, <1>9, <1>10, <1>11, <1>12
     DEF HandlerStep, HandlerSend, Outside

-----------------------------------------------------------------------------
(* Steps of the actor                                                      *)

\* Taking the head of the channel leaves the other Login commands as they
\* were, and one that is taken is the only one of its connection.
LEMMA ReceiveKeepsFresh ==
    ASSUME Inv, NEW op, Receive(op)
    PROVE  /\ \A i \in DOMAIN inbox' : inbox'[i].op = "login" =>
                /\ pc[inbox'[i].c] = "loginWait"
                /\ inbox'[i].c \notin players
                /\ records[inbox'[i].c] = 0
                /\ op = "login" => inbox'[i].c # Head(inbox).c
                /\ \A j \in DOMAIN inbox' :
                      inbox'[j].op = "login" /\ inbox'[j].c = inbox'[i].c => j = i
           /\ alive /\ stack = <<>>
           /\ op = "login" => /\ pc[Head(inbox).c] = "loginWait"
                              /\ Head(inbox).c \notin players
                              /\ records[Head(inbox).c] = 0
<1>. USE DEF Inv, RecordsInv
<1>1. /\ stack = <<>>
      /\ 1 \in DOMAIN inbox /\ Head(inbox) = inbox[1] /\ inbox[1].op = op
      /\ \A i \in DOMAIN inbox' : i + 1 \in DOMAIN inbox /\ inbox'[i] = inbox[i + 1]
  BY ReceiveTakesHead
<1>2. DOMAIN inbox' \subseteq Nat \ {0}
  <2>1. inbox' \in Seq(Command)
    BY ReceiveTakesHead DEF InboxType
  <2>. QED BY <2>1
<1>3. alive
  BY DEF StoppedIdle, Receive
<1>4. op = "login" => /\ pc[Head(inbox).c] = "loginWait"
                      /\ Head(inbox).c \notin players
                      /\ records[Head(inbox).c] = 0
  BY <1>1 DEF LoginsFresh
<1>5. ASSUME NEW i \in DOMAIN inbox', inbox'[i].op = "login"
      PROVE  /\ pc[inbox'[i].c] = "loginWait"
             /\ inbox'[i].c \notin players
             /\ records[inbox'[i].c] = 0
             /\ op = "login" => inbox'[i].c # Head(inbox).c
             /\ \A j \in DOMAIN inbox' :
                   inbox'[j].op = "login" /\ inbox'[j].c = inbox'[i].c => j = i
  <2>1. i + 1 \in DOMAIN inbox /\ inbox'[i] = inbox[i + 1] /\ i + 1 # 1
    BY <1>1, <1>2
  <2>2. \A j \in DOMAIN inbox' :
            inbox'[j].op = "login" /\ inbox'[j].c = inbox'[i].c => j + 1 = i + 1
    BY <1>1, <1>5, <2>1 DEF LoginsFresh
  <2>3. \A j \in DOMAIN inbox' :
            inbox'[j].op = "login" /\ inbox'[j].c = inbox'[i].c => j = i
    BY <1>2, <2>2
  <2>4. op = "login" => inbox'[i].c # Head(inbox).c
    BY <1>1, <1>5, <2>1 DEF LoginsFresh
  <2>. QED BY <1>5, <2>1, <2>3, <2>4 DEF LoginsFresh
<1>. QED BY <1>1, <1>3, <1>4, <1>5

\* A departure, whoever causes it, is the player's only one.
LEMMA LeaveInv ==
    ASSUME Inv, NEW c \in players, NEW rest \in Seq(Frame),
           UNCHANGED pc,
           players' = players \ {c},
           records' = [records EXCEPT ![c] = @ + 1]
    PROVE  /\ RecordsCount'
           /\ \A d \in Conn : Entered(d) => EnteredThen(d)
           /\ \A d \in Conn : d \notin players => d \notin players' /\ records'[d] = records[d]
<1>. USE DEF Inv, RecordsInv
<1>1. c \in Conn /\ records \in [Conn -> Nat] /\ records[c] = 0
  BY DEF Typed, TypeOK, WorldType, GhostType, RecordsCount
<1>2. records'[c] = 1 /\ \A d \in Conn : d # c => records'[d] = records[d]
  BY <1>1
<1>. QED BY <1>1, <1>2 DEF RecordsCount, Entered, EnteredThen

\* Packets put before the rest of a handler leave its reply due.
LEMMA PushesKeepAcks ==
    ASSUME StackType, NEW S \in SUBSET Conn, NEW s \in SetToSeqs(S),
           NEW rest \in Seq(Frame), stack' = Pushes(s) \o rest,
           \A i \in DOMAIN rest : rest[i].do = "ack" =>
              /\ i = Len(rest)
              /\ pc'[rest[i].c] = "loginWait"
              /\ EnteredThen(rest[i].c)
    PROVE  AcksDue'
<1>1. /\ Pushes(s) \in Seq(Frame)
      /\ Len(stack') = Len(Pushes(s)) + Len(rest)
      /\ \A i \in DOMAIN stack' :
            \/ stack'[i].do = "push"
            \/ /\ i - Len(Pushes(s)) \in DOMAIN rest
               /\ stack'[i] = rest[i - Len(Pushes(s))]
  BY PushesBefore, PushesAreFrames
<1>2. DOMAIN stack' \subseteq Nat /\ Len(Pushes(s)) \in Nat /\ Len(rest) \in Nat
  <2>1. stack' \in Seq(Frame)
    BY <1>1
  <2>. QED BY <1>1, <2>1
<1>3. ASSUME NEW i \in DOMAIN stack', stack'[i].do = "ack"
      PROVE  i = Len(stack') /\ pc'[stack'[i].c] = "loginWait" /\ EnteredThen(stack'[i].c)
  <2>1. /\ i - Len(Pushes(s)) \in DOMAIN rest
        /\ stack'[i] = rest[i - Len(Pushes(s))]
    BY <1>1, <1>3
  <2>2. i - Len(Pushes(s)) = Len(rest)
    BY <1>3, <2>1
  <2>3. i = Len(stack')
    BY <1>1, <1>2, <2>2
  <2>. QED BY <1>3, <2>1, <2>3
<1>. QED BY <1>3 DEF AcksDue, Entered, EnteredThen

\* A handler's rest without its head: an ack in it is still the last frame.
LEMMA TailKeepsAcks ==
    ASSUME StackType, AcksDue, stack # <<>>
    PROVE  /\ Tail(stack) \in Seq(Frame)
           /\ \A i \in DOMAIN Tail(stack) : Tail(stack)[i].do = "ack" =>
                /\ i = Len(Tail(stack))
                /\ pc[Tail(stack)[i].c] = "loginWait"
                /\ Tail(stack)[i].c \in Conn
                /\ Entered(Tail(stack)[i].c)
<1>1. /\ stack \in Seq(Frame) /\ Tail(stack) \in Seq(Frame)
      /\ Len(Tail(stack)) = Len(stack) - 1
      /\ Len(stack) \in Nat
      /\ DOMAIN stack = 1..Len(stack)
      /\ DOMAIN Tail(stack) = 1..(Len(stack) - 1)
      /\ \A i \in 1..(Len(stack) - 1) : Tail(stack)[i] = stack[i + 1]
  BY DEF StackType
<1>2. ASSUME NEW i \in DOMAIN Tail(stack), Tail(stack)[i].do = "ack"
      PROVE  /\ i = Len(Tail(stack))
             /\ pc[Tail(stack)[i].c] = "loginWait"
             /\ Tail(stack)[i].c \in Conn
             /\ Entered(Tail(stack)[i].c)
  <2>1. i \in Nat /\ i + 1 \in DOMAIN stack /\ Tail(stack)[i] = stack[i + 1] /\ stack[i + 1] \in Frame
    BY <1>1
  <2>2. i + 1 = Len(stack)
    BY <1>2, <2>1 DEF AcksDue
  <2>3. Tail(stack)[i].c \in Conn
    BY <2>1 DEF Frame
  <2>4. stack[i + 1].do = "ack"
    BY <1>2, <2>1
  <2>5. pc[stack[i + 1].c] = "loginWait" /\ Entered(stack[i + 1].c)
    BY <2>1, <2>4 DEF AcksDue
  <2>. DEFINE n == Len(stack)  m == Len(Tail(stack))
  <2>6. m = i
    <3>1. n \in Nat /\ m = n - 1 /\ i + 1 = n /\ i \in Nat
      BY <1>1, <2>1, <2>2
    <3>. HIDE DEF n, m
    <3>. QED BY <3>1
  <2>7. Tail(stack)[i] = stack[i + 1]
    BY <2>1
  <2>. HIDE <1>1
  <2>. QED BY <2>3, <2>5, <2>6, <2>7 DEF Entered
<1>. QED BY <1>1, <1>2

\* Game::login, logout and shutdown_and_save, and the commands that keep the
\* set of players.
LEMMA CommandInv ==
    ASSUME Inv, Typed', HandleCommand
    PROVE  Inv'
<1>. USE DEF Inv, RecordsInv
<1>1. CASE HandleLogin
  <2>. DEFINE c == Head(inbox).c
  <2>1. /\ Receive("login")
        /\ players' = players \union {c}
        /\ UNCHANGED <<pc, alive, records>>
    BY <1>1 DEF HandleLogin, ghostVars
  <2>2. c \in Conn
    BY <2>1, ReceiveTakesHead
  <2>3. /\ \A i \in DOMAIN inbox' : inbox'[i].op = "login" =>
                /\ pc[inbox'[i].c] = "loginWait"
                /\ inbox'[i].c \notin players
                /\ records[inbox'[i].c] = 0
                /\ inbox'[i].c # c
                /\ \A j \in DOMAIN inbox' :
                      inbox'[j].op = "login" /\ inbox'[j].c = inbox'[i].c => j = i
        /\ alive /\ pc[c] = "loginWait" /\ c \notin players /\ records[c] = 0
    BY <2>1, ReceiveKeepsFresh
  <2>. HIDE DEF c
  <2>4. RecordsCount'
    BY <2>1, <2>2, <2>3 DEF RecordsCount, Entered
  <2>5. LoginsFresh'
    BY <2>1, <2>3 DEF LoginsFresh
  <2>6. AcksDue'
    <3>1. PICK S \in SUBSET players :
             \E s \in SetToSeqs(S) : stack' = Pushes(s) \o <<[do |-> "ack", c |-> c]>>
      BY <1>1 DEF HandleLogin, c
    <3>2. PICK s \in SetToSeqs(S) : stack' = Pushes(s) \o <<[do |-> "ack", c |-> c]>>
      BY <3>1
    <3>3. S \in SUBSET Conn /\ StackType
      BY DEF Typed, TypeOK, WorldType
    <3>. DEFINE rest == <<[do |-> "ack", c |-> c]>>
    <3>4. rest \in Seq(Frame)
      BY <2>2, FramesOfConn
    <3>5. \A i \in DOMAIN rest : /\ i = Len(rest)
                                 /\ pc'[rest[i].c] = "loginWait"
                                 /\ EnteredThen(rest[i].c)
      BY <2>1, <2>3 DEF EnteredThen
    <3>. HIDE DEF rest
    <3>6. stack' = Pushes(s) \o rest
      BY <3>2 DEF rest
    <3>. QED BY <3>3, <3>4, <3>5, <3>6, PushesKeepAcks
  <2>7. StoppedIdle'
    BY <2>1, <2>3 DEF StoppedIdle
  <2>. QED BY <2>4, <2>5, <2>6, <2>7
<1>2. CASE HandleLogout
  <2>1. \A i \in DOMAIN inbox' : inbox'[i].op = "login" =>
                /\ pc[inbox'[i].c] = "loginWait"
                /\ inbox'[i].c \notin players
                /\ records[inbox'[i].c] = 0
                /\ inbox'[i].c \in Conn
                /\ \A j \in DOMAIN inbox' :
                      inbox'[j].op = "login" /\ inbox'[j].c = inbox'[i].c => j = i
    <3>1. inbox' \in Seq(Command)
      BY <1>2, ReceiveTakesHead DEF HandleLogout, InboxType
    <3>2. \A i \in DOMAIN inbox' : inbox'[i].op = "login" => inbox'[i].c \in Conn
      BY <3>1 DEF Command
    <3>. QED BY <1>2, <3>2, ReceiveKeepsFresh DEF HandleLogout
  <2>2. alive /\ stack = <<>>
    BY <1>2, ReceiveKeepsFresh DEF HandleLogout
  <2>3. CASE Head(inbox).c \in players /\ Leave(Head(inbox).c, <<>>)
    <3>1. /\ UNCHANGED <<pc, alive>>
          /\ players' = players \ {Head(inbox).c}
          /\ records' = [records EXCEPT ![Head(inbox).c] = @ + 1]
      BY <2>3 DEF Leave, connVars
    <3>2. <<>> \in Seq(Frame)
      OBVIOUS
    <3>3. /\ RecordsCount'
          /\ \A d \in Conn : d \notin players => d \notin players' /\ records'[d] = records[d]
      BY <2>3, <3>1, <3>2, LeaveInv
    <3>4. LoginsFresh'
      BY <2>1, <3>1, <3>3 DEF LoginsFresh
    <3>5. AcksDue'
      <4>1. PICK S \in SUBSET (players \ {Head(inbox).c}) :
               \E s \in SetToSeqs(S) : stack' = Pushes(s) \o <<>>
        BY <2>3 DEF Leave
      <4>2. PICK s \in SetToSeqs(S) : stack' = Pushes(s) \o <<>>
        BY <4>1
      <4>3. S \in SUBSET Conn /\ StackType
        BY DEF Typed, TypeOK, WorldType
      <4>4. \A i \in DOMAIN <<>> : FALSE
        OBVIOUS
      <4>. QED BY <3>2, <4>2, <4>3, <4>4, PushesKeepAcks
    <3>6. StoppedIdle'
      BY <2>2, <3>1 DEF StoppedIdle
    <3>. QED BY <3>3, <3>4, <3>5, <3>6
  <2>4. CASE UNCHANGED <<connVars, worldVars, receiving, alive, diskVars,
                         server, faults, crashes, ghostVars>>
    <3>1. UNCHANGED <<pc, stack, players, alive, records>>
      BY <2>4 DEF connVars, worldVars, ghostVars
    <3>2. LoginsFresh'
      BY <2>1, <3>1 DEF LoginsFresh
    <3>. QED BY <2>2, <3>1, <3>2 DEF RecordsCount, AcksDue, StoppedIdle, Entered
  <2>. QED BY <1>2, <2>3, <2>4 DEF HandleLogout
<1>3. CASE HandlePlay
  <2>1. \A i \in DOMAIN inbox' : inbox'[i].op = "login" =>
                /\ pc[inbox'[i].c] = "loginWait"
                /\ inbox'[i].c \notin players
                /\ records[inbox'[i].c] = 0
                /\ \A j \in DOMAIN inbox' :
                      inbox'[j].op = "login" /\ inbox'[j].c = inbox'[i].c => j = i
    BY <1>3, ReceiveKeepsFresh DEF HandlePlay
  <2>2. alive /\ stack = <<>>
    BY <1>3, ReceiveKeepsFresh DEF HandlePlay
  <2>3. UNCHANGED <<pc, players, alive, records>>
    BY <1>3 DEF HandlePlay, connVars, worldVars, ghostVars
  <2>4. LoginsFresh'
    BY <2>1, <2>3 DEF LoginsFresh
  <2>5. AcksDue'
    <3>1. CASE \E S \in SUBSET players : \E s \in SetToSeqs(S) : stack' = Pushes(s)
      <4>1. PICK S \in SUBSET players : \E s \in SetToSeqs(S) : stack' = Pushes(s)
        BY <3>1
      <4>2. PICK s \in SetToSeqs(S) : stack' = Pushes(s)
        BY <4>1
      <4>3. S \in SUBSET Conn
        BY DEF Typed, TypeOK, WorldType
      <4>. QED BY <4>2, <4>3, PushesAreFrames DEF AcksDue
    <3>2. CASE UNCHANGED worldVars
      BY <2>2, <3>2 DEF AcksDue, worldVars
    <3>. QED BY <1>3, <3>1, <3>2 DEF HandlePlay
  <2>. QED BY <2>2, <2>3, <2>4, <2>5 DEF RecordsCount, StoppedIdle, Entered
<1>4. CASE HandleShutdown
  <2>1. /\ Receive("shutdown") /\ inbox' = <<>> /\ UNCHANGED <<pc, stack>> /\ players' = {}
        /\ records' = [c \in Conn |-> IF c \in players THEN records[c] + 1 ELSE records[c]]
    BY <1>4 DEF HandleShutdown, Receive, connVars
  <2>2. stack' = <<>>
    BY <2>1 DEF Receive
  <2>3. RecordsCount'
    BY <2>1 DEF RecordsCount, Entered
  <2>. QED BY <2>1, <2>2, <2>3 DEF LoginsFresh, AcksDue, StoppedIdle
<1>. QED BY <1>1, <1>2, <1>3, <1>4 DEF HandleCommand

\* The frames of a blow are not replies.
LEMMA BlowFrames ==
    ASSUME NEW c \in Conn, NEW do \in {"hurt", "die", "bury"}
    PROVE  /\ <<[do |-> do, c |-> c]>> \in Seq(Frame)
           /\ \A i \in DOMAIN <<[do |-> do, c |-> c]>> :
                 <<[do |-> do, c |-> c]>>[i].do # "ack"
<1>1. [do |-> do, c |-> c] \in Frame
  BY DEF Frame
<1>2. \A i \in DOMAIN <<[do |-> do, c |-> c]>> :
         <<[do |-> do, c |-> c]>>[i] = [do |-> do, c |-> c]
  OBVIOUS
<1>. QED BY <1>1, <1>2

LEMMA ActorInv ==
    ASSUME Inv, Typed', Actor, ~HandleCommand
    PROVE  Inv'
<1>. USE DEF Inv, RecordsInv
<1>0. StackType /\ players \subseteq Conn
  BY DEF Typed, TypeOK, WorldType
<1>1. CASE HandleLight
  <2>1. UNCHANGED <<pc, inbox, players, alive, records>> /\ alive
    BY <1>1 DEF HandleLight, Tick, connVars, ghostVars
  <2>2. PICK s \in SetToSeqs(players) : stack' = Pushes(s)
    BY <1>1 DEF HandleLight
  <2>3. AcksDue'
    BY <1>0, <2>2, PushesAreFrames DEF AcksDue
  <2>. QED BY <2>1, <2>3 DEF RecordsCount, LoginsFresh, StoppedIdle, Entered
<1>2. CASE HandleBlow
  <2>1. UNCHANGED <<pc, inbox, players, alive, records>> /\ alive
    BY <1>2 DEF HandleBlow, Tick, connVars
  <2>2. PICK v \in players : \E S \in SUBSET (players \ {v}) : \E s \in SetToSeqs(S \union {v}) :
                stack' = Pushes(s) \o <<[do |-> "hurt", c |-> v]>>
    BY <1>2 DEF HandleBlow
  <2>3. PICK S \in SUBSET (players \ {v}) : \E s \in SetToSeqs(S \union {v}) :
                stack' = Pushes(s) \o <<[do |-> "hurt", c |-> v]>>
    BY <2>2
  <2>4. PICK s \in SetToSeqs(S \union {v}) : stack' = Pushes(s) \o <<[do |-> "hurt", c |-> v]>>
    BY <2>3
  <2>5. S \union {v} \in SUBSET Conn
    BY <1>0
  <2>. DEFINE rest == <<[do |-> "hurt", c |-> v]>>
  <2>6. rest \in Seq(Frame) /\ \A i \in DOMAIN rest : rest[i].do # "ack"
    BY <1>0, BlowFrames
  <2>. HIDE DEF rest
  <2>7. stack' = Pushes(s) \o rest
    BY <2>4 DEF rest
  <2>8. AcksDue'
    BY <1>0, <2>5, <2>6, <2>7, PushesKeepAcks
  <2>. QED BY <2>1, <2>8 DEF RecordsCount, LoginsFresh, StoppedIdle, Entered
<1>3. ASSUME stack # <<>>, Pop, UNCHANGED <<pc, inbox, players, alive, records>>
      PROVE  Inv'
  <2>1. AcksDue'
    BY <1>0, <1>3, TailKeepsAcks DEF Pop, AcksDue, Entered
  <2>2. alive
    BY <1>3 DEF StoppedIdle
  <2>. QED BY <1>3, <2>1, <2>2 DEF RecordsCount, LoginsFresh, StoppedIdle, Entered
<1>4. CASE PushSent \/ PushSkipped
  BY <1>3, <1>4 DEF PushSent, PushSkipped, Top, connVars, ghostVars
<1>5. ASSUME NEW c \in players, NEW rest \in Seq(Frame), alive,
             UNCHANGED <<pc, inbox, alive>>,
             players' = players \ {c},
             records' = [records EXCEPT ![c] = @ + 1]
      PROVE  /\ RecordsCount' /\ LoginsFresh' /\ StoppedIdle'
             /\ \A d \in Conn : Entered(d) => EnteredThen(d)
  <2>1. /\ RecordsCount'
        /\ \A d \in Conn : Entered(d) => EnteredThen(d)
        /\ \A d \in Conn : d \notin players => d \notin players' /\ records'[d] = records[d]
    BY <1>5, LeaveInv
  <2>2. \A i \in DOMAIN inbox : inbox[i].op = "login" => inbox[i].c \in Conn
    BY DEF Typed, TypeOK, InboxType, Command
  <2>3. LoginsFresh'
    BY <1>5, <2>1, <2>2 DEF LoginsFresh
  <2>. QED BY <1>5, <2>1, <2>3 DEF StoppedIdle
<1>6. CASE Reap
  <2>. DEFINE c == Head(stack).c
  <2>1. stack # <<>> /\ c \in players /\ Leave(c, Tail(stack)) /\ UNCHANGED inbox
    BY <1>6 DEF Reap, Top
  <2>2. alive
    BY <2>1 DEF StoppedIdle
  <2>3. /\ Tail(stack) \in Seq(Frame)
        /\ \A i \in DOMAIN Tail(stack) : Tail(stack)[i].do = "ack" =>
                /\ i = Len(Tail(stack))
                /\ pc[Tail(stack)[i].c] = "loginWait"
                /\ Tail(stack)[i].c \in Conn
                /\ Entered(Tail(stack)[i].c)
    BY <1>0, <2>1, TailKeepsAcks
  <2>4. UNCHANGED <<pc, alive>> /\ players' = players \ {c}
        /\ records' = [records EXCEPT ![c] = @ + 1]
    BY <2>1 DEF Leave, connVars
  <2>5. /\ RecordsCount' /\ LoginsFresh' /\ StoppedIdle'
        /\ \A d \in Conn : Entered(d) => EnteredThen(d)
    BY <1>5, <2>1, <2>2, <2>3, <2>4
  <2>6. PICK S \in SUBSET (players \ {c}) :
           \E s \in SetToSeqs(S) : stack' = Pushes(s) \o Tail(stack)
    BY <2>1 DEF Leave
  <2>7. PICK s \in SetToSeqs(S) : stack' = Pushes(s) \o Tail(stack)
    BY <2>6
  <2>. DEFINE rest == Tail(stack)
  <2>8. /\ rest \in Seq(Frame) /\ stack' = Pushes(s) \o rest
        /\ \A i \in DOMAIN rest : rest[i].do = "ack" =>
                /\ i = Len(rest)
                /\ pc'[rest[i].c] = "loginWait"
                /\ EnteredThen(rest[i].c)
    BY <2>3, <2>4, <2>5, <2>7
  <2>9. S \in SUBSET Conn
    BY <1>0
  <2>. HIDE DEF rest
  <2>10. AcksDue'
    BY <1>0, <2>8, <2>9, PushesKeepAcks
  <2>. QED BY <2>5, <2>10
<1>7. CASE Ack
  <2>. DEFINE c == Head(stack).c
  <2>1. /\ stack # <<>> /\ Head(stack).do = "ack" /\ pc' = [pc EXCEPT ![c] = "burst"]
        /\ stack' = Tail(stack)
        /\ UNCHANGED <<inbox, players, alive, records>>
    BY <1>7 DEF Ack, Top, Pop, ghostVars
  <2>2. 1 \in DOMAIN stack /\ Head(stack) = stack[1] /\ c \in Conn
    BY <1>0, <1>7, TopOfStack DEF Ack
  <2>3. 1 = Len(stack) /\ pc[c] = "loginWait" /\ Entered(c)
    BY <2>1, <2>2 DEF AcksDue
  <2>4. stack' = <<>>
    BY <1>0, <2>1, <2>3 DEF StackType
  <2>5. pc \in [Conn -> {"idle", "burst", "live", "logoutSend", "closed"} \union Loading]
    BY DEF Typed, TypeOK, ConnType
  <2>. HIDE DEF c
  <2>6. RecordsCount'
    BY <2>1, <2>2, <2>3, <2>5 DEF RecordsCount, Entered
  <2>7. LoginsFresh'
    <3>1. \A i \in DOMAIN inbox : inbox[i].op = "login" => inbox[i].c # c /\ inbox[i].c \in Conn
      BY <2>3 DEF LoginsFresh, Entered, Typed, TypeOK, InboxType, Command
    <3>. QED BY <2>1, <2>5, <3>1 DEF LoginsFresh
  <2>8. AcksDue' /\ StoppedIdle'
    BY <2>1, <2>4 DEF AcksDue, StoppedIdle
  <2>. QED BY <2>6, <2>7, <2>8
<1>8. ASSUME stack # <<>>, UNCHANGED <<pc, inbox, players, alive, records>>,
             stack' \in Seq(Frame), \A i \in DOMAIN stack' : stack'[i].do # "ack"
      PROVE  Inv'
  <2>1. alive
    BY <1>8 DEF StoppedIdle
  <2>. QED BY <1>8, <2>1 DEF RecordsCount, LoginsFresh, AcksDue, StoppedIdle, Entered
<1>9. CASE Hurt
  <2>. DEFINE v == Head(stack).c
  <2>1. stack # <<>> /\ UNCHANGED <<pc, inbox, players, alive, records>>
    BY <1>9 DEF Hurt, Top, connVars, ghostVars
  <2>2. v \in Conn
    BY <1>0, <1>9, TopOfStack DEF Hurt
  <2>3. CASE Pop
    BY <1>3, <2>1, <2>3
  <2>4. CASE \E S \in SUBSET (players \ {v}) : \E s \in SetToSeqs(S \union {v}) :
                stack' = <<Push(v)>> \o Pushes(s) \o
                         (IF state[v].dead THEN <<[do |-> "die", c |-> v]>>
                                           ELSE <<>>)
    <3>. DEFINE rest == IF state[v].dead THEN <<[do |-> "die", c |-> v]>> ELSE <<>>
    <3>1. PICK S \in SUBSET (players \ {v}) : \E s \in SetToSeqs(S \union {v}) :
                stack' = <<Push(v)>> \o Pushes(s) \o rest
      BY <2>4
    <3>2. PICK s \in SetToSeqs(S \union {v}) : stack' = <<Push(v)>> \o Pushes(s) \o rest
      BY <3>1
    <3>3. S \union {v} \in SUBSET Conn
      BY <1>0, <2>2
    <3>4. rest \in Seq(Frame) /\ \A i \in DOMAIN rest : rest[i].do # "ack"
      <4>1. CASE state[v].dead
        <5>1. rest = <<[do |-> "die", c |-> v]>>
          BY <4>1
        <5>. QED BY <2>2, <5>1, BlowFrames
      <4>2. CASE ~state[v].dead
        <5>1. rest = <<>>
          BY <4>2
        <5>. QED BY <5>1
      <4>. QED BY <4>1, <4>2
    <3>. DEFINE own == <<Push(v)>>
    <3>5. own \in Seq(Frame) /\ \A i \in DOMAIN own : own[i].do # "ack"
      BY <2>2 DEF Push, Frame
    <3>6. Pushes(s) \in Seq(Frame) /\ \A i \in DOMAIN Pushes(s) : Pushes(s)[i].do # "ack"
      BY <3>3, PushesAreFrames
    <3>7. stack' = own \o Pushes(s) \o rest
      BY <3>2
    <3>. HIDE DEF rest, own
    <3>8. stack' \in Seq(Frame)
      BY <3>4, <3>5, <3>6, <3>7
    <3>. DEFINE front == own \o Pushes(s)
    <3>9. front \in Seq(Frame) /\ \A i \in DOMAIN front : front[i].do # "ack"
      BY <3>5, <3>6
    <3>10. stack' = front \o rest
      BY <3>7
    <3>. HIDE DEF front
    <3>11. \A i \in DOMAIN stack' : stack'[i].do # "ack"
      BY <3>4, <3>9, <3>10
    <3>. QED BY <1>8, <2>1, <3>8, <3>11
  <2>. QED BY <1>9, <2>3, <2>4 DEF Hurt
<1>10. CASE Die
  <2>. DEFINE v == Head(stack).c
  <2>1. stack # <<>> /\ UNCHANGED <<pc, inbox, players, alive, records>>
    BY <1>10 DEF Die, Top, connVars, ghostVars
  <2>2. v \in Conn
    BY <1>0, <1>10, TopOfStack DEF Die
  <2>3. CASE Pop
    BY <1>3, <2>1, <2>3
  <2>4. CASE \E S \in SUBSET (players \ {v}) : \E s \in SetToSeqs(S) :
                stack' = Pushes(s) \o <<[do |-> "bury", c |-> v]>>
    <3>1. PICK S \in SUBSET (players \ {v}) : \E s \in SetToSeqs(S) :
                stack' = Pushes(s) \o <<[do |-> "bury", c |-> v]>>
      BY <2>4
    <3>2. PICK s \in SetToSeqs(S) : stack' = Pushes(s) \o <<[do |-> "bury", c |-> v]>>
      BY <3>1
    <3>3. S \in SUBSET Conn
      BY <1>0
    <3>. DEFINE rest == <<[do |-> "bury", c |-> v]>>
    <3>4. rest \in Seq(Frame) /\ \A i \in DOMAIN rest : rest[i].do # "ack"
      BY <2>2, BlowFrames
    <3>5. stack' = Pushes(s) \o rest
      BY <3>2
    <3>. HIDE DEF rest
    <3>6. AcksDue'
      BY <1>0, <3>3, <3>4, <3>5, PushesKeepAcks
    <3>7. alive
      BY <2>1 DEF StoppedIdle
    <3>. QED BY <2>1, <3>6, <3>7 DEF RecordsCount, LoginsFresh, StoppedIdle, Entered
  <2>. QED BY <1>10, <2>3, <2>4 DEF Die
<1>11. CASE Bury
  <2>. DEFINE v == Head(stack).c
  <2>1. stack # <<>> /\ stack' = Tail(stack) /\ UNCHANGED <<pc, inbox, alive>>
    BY <1>11 DEF Bury, Top, Pop, connVars
  <2>2. alive
    BY <2>1 DEF StoppedIdle
  <2>3. CASE UNCHANGED <<players, records>>
    BY <1>3, <2>1, <2>3 DEF Pop
  <2>4. CASE v \in players /\ players' = players \ {v} /\ records' = [records EXCEPT ![v] = @ + 1]
    <3>1. <<>> \in Seq(Frame)
      OBVIOUS
    <3>2. /\ RecordsCount' /\ LoginsFresh' /\ StoppedIdle'
          /\ \A d \in Conn : Entered(d) => EnteredThen(d)
      BY <1>5, <2>1, <2>2, <2>4, <3>1
    <3>3. \A i \in DOMAIN Tail(stack) : Tail(stack)[i].do = "ack" =>
                /\ i = Len(Tail(stack))
                /\ pc[Tail(stack)[i].c] = "loginWait"
                /\ Tail(stack)[i].c \in Conn
                /\ Entered(Tail(stack)[i].c)
      BY <1>0, <2>1, TailKeepsAcks
    <3>4. AcksDue'
      BY <2>1, <3>2, <3>3 DEF AcksDue, Entered, EnteredThen
    <3>. QED BY <3>2, <3>4
  <2>. QED BY <1>11, <2>3, <2>4 DEF Bury
<1>. QED BY <1>1, <1>2, <1>4, <1>6, <1>7, <1>9, <1>10, <1>11 DEF Actor

LEMMA ServerInv ==
    ASSUME Inv, Typed', Worker \/ Main \/ Crash
    PROVE  Inv'
<1>. USE DEF Inv, RecordsInv
<1>1. CASE Worker \/ Signal \/ Exit
  BY <1>1, InvUntouched DEF Worker, SaveStats, SaveItems, SaveFault, Signal, Exit,
                            connVars, worldVars, ghostVars
<1>2. CASE SendShutdown
  <2>1. /\ UNCHANGED <<pc, stack, players, alive, records>> /\ alive
        /\ inbox' = Append(inbox, [op |-> "shutdown"])
    BY <1>2 DEF SendShutdown, connVars, worldVars, ghostVars
  <2>2. inbox \in Seq(Command)
    BY DEF Typed, TypeOK, InboxType
  <2>3. \A i \in DOMAIN inbox' : inbox'[i].op = "login" =>
            i \in DOMAIN inbox /\ inbox'[i] = inbox[i]
    BY <2>1, <2>2
  <2>4. LoginsFresh'
    BY <2>1, <2>3 DEF LoginsFresh
  <2>. QED BY <2>1, <2>4 DEF RecordsCount, AcksDue, StoppedIdle, Entered
<1>3. CASE Crash
  <2>1. /\ inbox' = <<>> /\ stack' = <<>> /\ players' = {} /\ records' = records
        /\ pc' = [c \in Conn |-> IF pc[c] = "idle" THEN "idle" ELSE "closed"]
    BY <1>3 DEF Crash
  <2>. QED BY <2>1 DEF RecordsCount, LoginsFresh, AcksDue, StoppedIdle, Entered
<1>. QED BY <1>1, <1>2, <1>3 DEF Main

-----------------------------------------------------------------------------

LEMMA StepInv == Inv /\ [Next]_vars => Inv'
<1>. SUFFICES ASSUME Inv, [Next]_vars PROVE Inv'
  OBVIOUS
<1>0. Typed'
  BY StepTyped DEF Inv
<1>1. ASSUME NEW c \in Conn, HandlerStep(c) \/ HandlerSend(c) \/ Outside(c)
      PROVE  Inv'
  BY <1>0, <1>1, ConnInv
<1>2. CASE Actor
  BY <1>0, <1>2, CommandInv, ActorInv
<1>3. CASE Worker \/ Main \/ Crash
  BY <1>0, <1>3, ServerInv
<1>4. CASE UNCHANGED vars
  BY <1>0, <1>4, InvUntouched DEF vars, connVars, worldVars, ghostVars
<1>. QED BY <1>1, <1>2, <1>3, <1>4 DEF Next, Step, Exited

\* Exactly one save record for every departure, and none before it, whoever
\* removes the player first: its own Logout command, a push that failed inside
\* another player's handler, a death, or the shutdown.
THEOREM RecordsCorrect == Spec => []OneRecordPerDeparture
<1>1. Inv => OneRecordPerDeparture
  BY DEF Inv, RecordsInv, RecordsCount, Entered, OneRecordPerDeparture, Departed
<1>. QED BY <1>1, InitInv, StepInv, PTL DEF Spec

(***************************************************************************)
(* No progress is lost.                                                    *)
(*                                                                         *)
(* ProgressKept is not inductive by itself.  What it rests on is that an   *)
(* undisturbed character is in one place at a time: it has one holder, a   *)
(* connection that loads or plays it, or one record on its way, and never  *)
(* both.                                                                   *)
(***************************************************************************)

\* The connection loads its character or plays it.
Active(c) == c \in players \/ pc[c] \in Loading

\* The handler of c has read the row and the world has not put it in yet.
Awaiting(c) == /\ pc[c] \in {"loginSend", "loginWait"}
               /\ c \notin players
               /\ records[c] = 0

\* The character has one holder and one record at most, and with a record its
\* holder has left the world already.
InOnePlace(ch) ==
    /\ \A c, d \in Conn :
          name[c] = ch /\ name[d] = ch /\ Active(c) /\ Active(d) => c = d
    /\ \A i, j \in DOMAIN Pipeline :
          Pipeline[i].name = ch /\ Pipeline[j].name = ch => i = j
    /\ \A c \in Conn : name[c] = ch /\ Active(c) /\ PendingSave(ch) =>
          c \notin players /\ records[c] = 1

\* Wherever the character is, it is there in version v.
AllAt(ch, v) ==
    /\ \A c \in players : name[c] = ch => AtVersion(state[c], v)
    /\ \A i \in DOMAIN Pipeline :
          Pipeline[i].name = ch => AtVersion(Pipeline[i].row, v)
    /\ \A c \in Conn : name[c] = ch =>
          /\ pc[c] = "loadItems" => save[c].stats = v
          /\ Awaiting(c) => AtVersion(save[c], v)
    /\ \A i \in DOMAIN writing : writing[i].name = ch => db[ch].stats = v
    /\ ~Playing(ch) /\ ~PendingSave(ch) => AtVersion(db[ch], v)

\* A character that was at rest whenever it was loaded is in one place.
OnePlace == \A ch \in Char : exclusive[ch] => InOnePlace(ch)

\* An undisturbed character is in its newest version wherever it is.
Newest == \A ch \in Char : Undisturbed(ch) => AllAt(ch, latest[ch])

\* A stopped actor has no players, and the process ends after the last save.
Drained ==
    /\ ~alive => players = {}
    /\ server = "exited" => ~alive /\ Pipeline = <<>>

ProgressInv == OnePlace /\ Newest /\ Drained

Kept == Inv /\ ProgressInv

-----------------------------------------------------------------------------
(* The pipeline of records, the half-written one first                     *)

\* What the proofs below need of the types.
LEMMA KeptTypes ==
    ASSUME Typed
    PROVE  /\ pc \in [Conn -> {"idle", "burst", "live", "logoutSend", "closed"}
                                 \union Loading]
           /\ name \in [Conn -> Char \union {NoChar}]
           /\ save \in [Conn -> Row] /\ state \in [Conn -> Row]
           /\ db \in [Char -> Row]
           /\ players \subseteq Conn
           /\ saves \in Seq(SaveRecord) /\ writing \in Seq(SaveRecord) /\ Len(writing) <= 1
           /\ latest \in [Char -> 1..MaxVersion]
           /\ exclusive \in [Char -> BOOLEAN] /\ lossy \in [Char -> BOOLEAN]
           /\ records \in [Conn -> Nat]
           /\ \A c \in Conn : pc[c] \in Loading \/ c \in players => name[c] \in Char
BY DEF Typed, TypeOK, ConnType, WorldType, DiskType, GhostType, NamesKnown

LEMMA PipelineType == ASSUME Typed PROVE Pipeline \in Seq(SaveRecord)
BY KeptTypes DEF Pipeline

\* One more record at the end.
LEMMA PipelineGrows ==
    ASSUME Typed, NEW r \in SaveRecord, saves' = Append(saves, r), writing' = writing
    PROVE  /\ Len(Pipeline) + 1 \in DOMAIN Pipeline'
           /\ Pipeline'[Len(Pipeline) + 1] = r
           /\ \A i \in DOMAIN Pipeline : i \in DOMAIN Pipeline' /\ Pipeline'[i] = Pipeline[i]
           /\ \A i \in DOMAIN Pipeline' : i \in DOMAIN Pipeline \/ i = Len(Pipeline) + 1
<1>1. writing \in Seq(SaveRecord) /\ saves \in Seq(SaveRecord) /\ Pipeline \in Seq(SaveRecord)
  BY KeptTypes, PipelineType
<1>2. Pipeline' = Append(Pipeline, r)
  BY <1>1 DEF Pipeline
<1>3. DOMAIN Pipeline = 1..Len(Pipeline) /\ Len(Pipeline) \in Nat
  BY <1>1
<1>4. DOMAIN Pipeline' = 1..(Len(Pipeline) + 1)
  BY <1>1, <1>2
<1>5. Pipeline'[Len(Pipeline) + 1] = r /\ \A i \in DOMAIN Pipeline : Pipeline'[i] = Pipeline[i]
  BY <1>1, <1>2, <1>3
<1>. QED BY <1>3, <1>4, <1>5

\* What follows a sequence of one.
LEMMA OneRecordFirst ==
    ASSUME NEW T, NEW w \in Seq(T), NEW s \in Seq(T), w # <<>>, Len(w) <= 1
    PROVE  Tail(w \o s) = s
<1>. DEFINE n == Len(w)  all == w \o s
<1>1. n \in Nat \ {0} /\ n <= 1
  BY EmptySeq
<1>2. /\ all \in Seq(T) /\ Len(all) = n + Len(s)
      /\ \A i \in 1..n + Len(s) : all[i] = IF i <= n THEN w[i] ELSE s[i - n]
  BY ConcatProperties
<1>3. Len(s) \in Nat
  OBVIOUS
<1>. HIDE DEF n, all
<1>4. n = 1
  BY <1>1
<1>5. Len(all) = Len(s) + 1 /\ \A i \in 1..Len(s) : all[i + 1] = s[i]
  BY <1>2, <1>3, <1>4
<1>6. all # <<>>
  BY <1>2, <1>3, <1>5
<1>7. /\ Tail(all) \in Seq(T) /\ Len(Tail(all)) = Len(s)
      /\ \A i \in 1..Len(s) : Tail(all)[i] = all[i + 1]
  BY <1>2, <1>3, <1>5, <1>6
<1>8. Tail(all) = s
  BY <1>5, <1>7
<1>. QED BY <1>8 DEF all

\* The first record is gone.
LEMMA PipelineShrinks ==
    ASSUME Typed, Pipeline # <<>>, writing' = <<>>,
           saves' = IF writing = <<>> THEN Tail(saves) ELSE saves
    PROVE  /\ 1 \in DOMAIN Pipeline /\ Head(Pipeline) = Pipeline[1]
           /\ Pipeline[1].name \in Char /\ Pipeline[1].row \in Row
           /\ \A i \in DOMAIN Pipeline' :
                 i + 1 \in DOMAIN Pipeline /\ i + 1 # 1 /\ Pipeline'[i] = Pipeline[i + 1]
           /\ \A i \in DOMAIN Pipeline : i # 1 =>
                 i - 1 \in DOMAIN Pipeline' /\ Pipeline'[i - 1] = Pipeline[i]
           /\ \A i, j \in DOMAIN Pipeline' : i + 1 = j + 1 => i = j
<1>1. writing \in Seq(SaveRecord) /\ saves \in Seq(SaveRecord) /\ Pipeline \in Seq(SaveRecord)
      /\ Len(writing) <= 1
  BY KeptTypes, PipelineType
<1>2. Pipeline' = Tail(Pipeline)
  <2>1. CASE writing = <<>>
    BY <1>1, <2>1 DEF Pipeline
  <2>2. CASE writing # <<>>
    <3>1. Tail(writing \o saves) = saves
      BY <1>1, <2>2, OneRecordFirst
    <3>. QED BY <1>1, <2>2, <3>1 DEF Pipeline
  <2>. QED BY <2>1, <2>2
<1>3. /\ 1 \in DOMAIN Pipeline /\ Head(Pipeline) = Pipeline[1]
      /\ Pipeline[1] \in SaveRecord
      /\ DOMAIN Pipeline = 1..Len(Pipeline) /\ Len(Pipeline) \in Nat
  BY <1>1
<1>4. /\ DOMAIN Tail(Pipeline) = 1..(Len(Pipeline) - 1)
      /\ \A i \in 1..(Len(Pipeline) - 1) : Tail(Pipeline)[i] = Pipeline[i + 1]
  BY <1>1
<1>. HIDE DEF Pipeline
<1>5. \A i \in DOMAIN Pipeline' :
         i + 1 \in DOMAIN Pipeline /\ i + 1 # 1 /\ Pipeline'[i] = Pipeline[i + 1]
  BY <1>2, <1>3, <1>4
<1>6. \A i \in DOMAIN Pipeline : i # 1 =>
         i - 1 \in DOMAIN Pipeline' /\ Pipeline'[i - 1] = Pipeline[i]
  BY <1>2, <1>3, <1>4
<1>7. \A i, j \in DOMAIN Pipeline' : i + 1 = j + 1 => i = j
  BY <1>2, <1>3, <1>4
<1>. QED BY <1>3, <1>5, <1>6, <1>7 DEF SaveRecord

LEMMA InitKept == Init => Kept
<1>. SUFFICES ASSUME Init PROVE ProgressInv
  BY InitInv DEF Kept
<1>1. Pipeline = <<>>
  BY DEF Init, Pipeline
<1>2. \A ch \in Char : InOnePlace(ch)
  BY <1>1 DEF Init, InOnePlace, Active, Loading, PendingSave
<1>3. \A ch \in Char : AllAt(ch, 1)
  BY <1>1 DEF Init, AllAt, Awaiting, AtVersion, Uniform
<1>. QED BY <1>1, <1>2, <1>3 DEF Init, ProgressInv, OnePlace, Newest, Drained

-----------------------------------------------------------------------------
(* Steps that move no character                                            *)

\* The actor, the worker or the main task touch nothing a character is made of.
LEMMA Unmoved ==
    ASSUME Kept,
           UNCHANGED <<pc, name, save, players, state, diskVars, alive,
                       latest, exclusive, lossy, records>>,
           server' = "exited" => server = "exited" \/ (~alive /\ Pipeline = <<>>)
    PROVE  ProgressInv'
<1>1. Pipeline' = Pipeline
  BY DEF diskVars, Pipeline
<1>2. \A x \in Char : /\ PendingSave(x)' <=> PendingSave(x)
                      /\ Playing(x)' <=> Playing(x)
                      /\ Undisturbed(x)' <=> Undisturbed(x)
  BY <1>1 DEF PendingSave, Playing, Undisturbed
<1>3. \A c \in Conn : (Active(c)' <=> Active(c)) /\ (Awaiting(c)' <=> Awaiting(c))
  BY DEF Active, Awaiting
<1>4. \A x \in Char : InOnePlace(x) => InOnePlace(x)'
  BY <1>1, <1>2, <1>3 DEF InOnePlace
<1>5. \A x \in Char : AllAt(x, latest[x]) => AllAt(x, latest[x])'
  BY <1>1, <1>2, <1>3 DEF AllAt, diskVars
<1>. QED BY <1>1, <1>2, <1>4, <1>5 DEF Kept, ProgressInv, OnePlace, Newest, Drained

\* A handler goes on without starting a load, or only sends its Login.
LEMMA NothingMoves ==
    ASSUME Kept, Typed', NEW c \in Conn, NEW q,
           UNCHANGED <<name, save, players, state, diskVars, alive,
                       latest, exclusive, lossy, records>>,
           server' = "exited" => server = "exited" \/ (~alive /\ Pipeline = <<>>),
           pc' = [pc EXCEPT ![c] = q],
           q \notin Loading \/ q = pc[c] \/ (pc[c] = "loginSend" /\ q = "loginWait")
    PROVE  ProgressInv'
<1>. USE DEF Kept, Inv, ProgressInv
<1>0. /\ pc \in [Conn -> {"idle", "burst", "live", "logoutSend", "closed"} \union Loading]
      /\ players \subseteq Conn
  BY KeptTypes
<1>1. Pipeline' = Pipeline /\ writing' = writing /\ db' = db
  BY DEF Pipeline, diskVars
<1>2. \A d \in Conn : /\ Active(d)' => Active(d)
                      /\ Awaiting(d)' => Awaiting(d)
                      /\ pc'[d] = "loadItems" => pc[d] = "loadItems"
  BY <1>0 DEF Active, Awaiting, Loading
<1>3. \A ch \in Char : /\ PendingSave(ch)' <=> PendingSave(ch)
                       /\ Playing(ch)' <=> Playing(ch)
                       /\ Undisturbed(ch)' <=> Undisturbed(ch)
  BY <1>1 DEF PendingSave, Playing, Undisturbed
<1>4. \A ch \in Char : InOnePlace(ch) => InOnePlace(ch)'
  BY <1>1, <1>2, <1>3 DEF InOnePlace
<1>5. \A ch \in Char, v \in Nat : AllAt(ch, v) => AllAt(ch, v)'
  BY <1>1, <1>2, <1>3 DEF AllAt
<1>6. \A ch \in Char : latest[ch] \in Nat
  BY KeptTypes
<1>7. OnePlace' /\ Newest'
  BY <1>3, <1>4, <1>5, <1>6 DEF OnePlace, Newest
<1>8. Drained'
  BY <1>1 DEF Drained
<1>. QED BY <1>7, <1>8

-----------------------------------------------------------------------------
(* Loading a character                                                     *)

\* The character stays at rest in the eyes of the properties only if nobody
\* else has it: then the database holds its newest version.
LEMMA LoadBegins ==
    ASSUME Kept, Typed', NEW c \in Conn, NEW ch \in Char, LoadStats(c, ch)
    PROVE  ProgressInv'
<1>. USE DEF Kept, Inv, ProgressInv
<1>0. /\ pc \in [Conn -> {"idle", "burst", "live", "logoutSend", "closed"} \union Loading]
      /\ name \in [Conn -> Char \union {NoChar}] /\ save \in [Conn -> Row]
      /\ players \subseteq Conn /\ db \in [Char -> Row]
      /\ exclusive \in [Char -> BOOLEAN]
  BY KeptTypes
<1>1. /\ pc[c] = "idle" /\ c \notin players
      /\ name' = [name EXCEPT ![c] = ch]
      /\ save' = [save EXCEPT ![c] = [Blank EXCEPT !.stats = db[ch].stats,
                                                   !.dead = db[ch].dead]]
      /\ pc' = [pc EXCEPT ![c] = "loadItems"]
      /\ exclusive' = [exclusive EXCEPT ![ch] = @ /\ ~Busy(ch)]
      /\ UNCHANGED <<players, state, saves, writing, db, alive, server, latest, lossy, records>>
  BY DEF LoadStats, RecordsInv, RecordsCount, worldVars, diskVars
<1>2. Pipeline' = Pipeline
  BY <1>1 DEF Pipeline
<1>3. save'[c].stats = db[ch].stats
  BY <1>0, <1>1 DEF Blank, Uniform
<1>4. /\ \A d \in Conn : d # c => /\ name'[d] = name[d] /\ pc'[d] = pc[d] /\ save'[d] = save[d]
                                  /\ Active(d)' <=> Active(d)
                                  /\ Awaiting(d)' <=> Awaiting(d)
      /\ name'[c] = ch /\ pc'[c] = "loadItems" /\ ~Awaiting(c)'
  BY <1>0, <1>1 DEF Active, Awaiting
<1>5. \A x \in Char : /\ PendingSave(x)' <=> PendingSave(x)
                      /\ Playing(x)' <=> Playing(x)
  BY <1>0, <1>1, <1>2, <1>4 DEF PendingSave, Playing
<1>6. ASSUME NEW x \in Char, exclusive'[x]
      PROVE  /\ exclusive[x]
             /\ x = ch => /\ \A d \in Conn : name[d] = ch => ~Active(d)
                          /\ ~PendingSave(ch)
                          /\ ~Playing(ch)
  BY <1>0, <1>1, <1>6 DEF Busy, Active, Playing
<1>7. OnePlace'
  <2>1. ASSUME NEW x \in Char, exclusive'[x] PROVE InOnePlace(x)'
    <3>1. InOnePlace(x)
      BY <1>6, <2>1 DEF OnePlace
    <3>2. CASE x = ch
      BY <1>1, <1>2, <1>4, <1>5, <1>6, <2>1, <3>1, <3>2 DEF InOnePlace
    <3>3. CASE x # ch
      BY <1>1, <1>2, <1>4, <1>5, <3>1, <3>3 DEF InOnePlace
    <3>. QED BY <3>2, <3>3
  <2>. QED BY <2>1 DEF OnePlace
<1>8. Newest'
  <2>1. ASSUME NEW x \in Char, Undisturbed(x)' PROVE AllAt(x, latest[x])'
    <3>1. AllAt(x, latest[x])
      BY <1>1, <1>6, <2>1 DEF Newest, Undisturbed
    <3>2. CASE x = ch
      <4>1. ~PendingSave(ch) /\ ~Playing(ch)
        BY <1>6, <2>1, <3>2 DEF Undisturbed
      <4>2. save'[c].stats = latest[x]
        BY <1>3, <3>1, <3>2, <4>1 DEF AllAt, AtVersion
      <4>. QED BY <1>0, <1>1, <1>2, <1>4, <1>5, <3>1, <3>2, <4>2 DEF AllAt
    <3>3. CASE x # ch
      BY <1>0, <1>1, <1>2, <1>4, <1>5, <3>1, <3>3 DEF AllAt
    <3>. QED BY <3>2, <3>3
  <2>. QED BY <2>1 DEF Newest
<1>9. Drained'
  BY <1>1, <1>2 DEF Drained
<1>. QED BY <1>7, <1>8, <1>9

\* The second query, which may fail: then the character counts as disturbed.
LEMMA LoadEnds ==
    ASSUME Kept, Typed', NEW c \in Conn, LoadItems(c) \/ LoadFault(c)
    PROVE  ProgressInv'
<1>. USE DEF Kept, Inv, ProgressInv
<1>0. /\ pc \in [Conn -> {"idle", "burst", "live", "logoutSend", "closed"} \union Loading]
      /\ name \in [Conn -> Char \union {NoChar}] /\ save \in [Conn -> Row]
      /\ players \subseteq Conn /\ db \in [Char -> Row]
      /\ lossy \in [Char -> BOOLEAN]
  BY KeptTypes
<1>1. /\ pc[c] = "loadItems" /\ c \notin players /\ records[c] = 0
      /\ pc' = [pc EXCEPT ![c] = "loginSend"]
      /\ UNCHANGED <<name, players, state, saves, writing, db, alive, server, latest,
                     exclusive, records>>
  BY DEF LoadItems, LoadFault, RecordsInv, RecordsCount, worldVars, diskVars, ghostVars
<1>2. Pipeline' = Pipeline
  BY <1>1 DEF Pipeline
<1>3. name[c] \in Char
  BY <1>1, KeptTypes DEF Loading
<1>4. /\ \A d \in Conn : Active(d)' <=> Active(d)
      /\ \A d \in Conn : d # c => pc'[d] = pc[d] /\ (Awaiting(d)' <=> Awaiting(d))
      /\ pc'[c] = "loginSend"
  BY <1>0, <1>1 DEF Active, Awaiting, Loading
<1>5. \A x \in Char : /\ PendingSave(x)' <=> PendingSave(x)
                      /\ Playing(x)' <=> Playing(x)
  BY <1>1, <1>2 DEF PendingSave, Playing
<1>6. OnePlace'
  <2>1. \A x \in Char : InOnePlace(x) => InOnePlace(x)'
    BY <1>1, <1>2, <1>4, <1>5 DEF InOnePlace
  <2>. QED BY <1>1, <2>1 DEF OnePlace
<1>7. Newest'
  <2>1. ASSUME NEW x \in Char, Undisturbed(x)' PROVE AllAt(x, latest[x])'
    <3>1. Undisturbed(x) /\ (x = name[c] => LoadItems(c))
      <4>1. CASE LoadItems(c)
        BY <2>1, <4>1 DEF Undisturbed, LoadItems, ghostVars
      <4>2. CASE LoadFault(c)
        BY <1>0, <1>3, <2>1, <4>2 DEF Undisturbed, LoadFault
      <4>. QED BY <4>1, <4>2
    <3>2. AllAt(x, latest[x]) /\ InOnePlace(x)
      BY <3>1 DEF Newest, OnePlace, Undisturbed
    <3>3. \A d \in Conn : d # c => save'[d] = save[d]
      BY <1>0 DEF LoadItems, LoadFault
    <3>4. CASE x = name[c]
      <4>1. Active(c)
        BY <1>1 DEF Active, Loading
      <4>2. ~PendingSave(x) /\ ~Playing(x)
        <5>1. ~PendingSave(x)
          BY <1>1, <3>2, <3>4, <4>1 DEF InOnePlace
        <5>2. \A d \in players : d \in Conn /\ Active(d)
          BY <1>0 DEF Active
        <5>3. ~Playing(x)
          BY <1>1, <3>2, <3>4, <4>1, <5>2 DEF InOnePlace, Playing
        <5>. QED BY <5>1, <5>3
      <4>3. db[x].items = latest[x] /\ save[c].stats = latest[x]
        BY <1>1, <3>2, <3>4, <4>2 DEF AllAt, AtVersion
      <4>4. save'[c] = [save[c] EXCEPT !.items = db[x].items]
        BY <1>0, <3>1, <3>4 DEF LoadItems
      <4>5. AtVersion(save'[c], latest[x])
        <5>1. save[c] \in Row
          BY <1>0
        <5>. QED BY <4>3, <4>4, <5>1 DEF AtVersion, Row
      <4>. HIDE DEF AtVersion
      <4>. QED BY <1>0, <1>1, <1>2, <1>4, <1>5, <3>2, <3>3, <3>4, <4>5 DEF AllAt
    <3>5. CASE x # name[c]
      BY <1>0, <1>1, <1>2, <1>4, <1>5, <3>2, <3>3, <3>5 DEF AllAt
    <3>. QED BY <3>4, <3>5
  <2>. QED BY <2>1 DEF Newest
<1>8. Drained'
  BY <1>1, <1>2 DEF Drained
<1>. QED BY <1>6, <1>7, <1>8

LEMMA ConnKept ==
    ASSUME Kept, Typed', NEW c \in Conn,
           HandlerStep(c) \/ HandlerSend(c) \/ Outside(c), server # "exited"
    PROVE  ProgressInv'
<1>0. pc \in [Conn -> {"idle", "burst", "live", "logoutSend", "closed"} \union Loading]
  BY KeptTypes DEF Kept, Inv
<1>. USE DEF connVars, worldVars, ghostVars
<1>1. CASE Reject(c) \/ LoginRefused(c) \/ BurstFailed(c) \/ SendLogout(c)
  <2>1. "closed" \notin Loading
    BY DEF Loading
  <2>. QED BY <1>1, <2>1, NothingMoves DEF Reject, LoginRefused, BurstFailed, SendLogout
<1>2. ASSUME NEW ch \in Char, LoadStats(c, ch) PROVE ProgressInv'
  BY <1>2, LoadBegins
<1>3. CASE LoadItems(c) \/ LoadFault(c)
  BY <1>3, LoadEnds
<1>4. CASE SendLogin(c)
  BY <1>4, NothingMoves DEF SendLogin
<1>5. CASE BurstSent(c) \/ ClientCommand(c) \/ WriterDrain(c)
  <2>1. "live" \notin Loading
    BY DEF Loading
  <2>2. pc' = [pc EXCEPT ![c] = "live"]
    BY <1>0, <1>5 DEF BurstSent, ClientCommand, WriterDrain
  <2>. QED BY <1>5, <2>1, <2>2, NothingMoves DEF BurstSent, ClientCommand, WriterDrain
<1>6. CASE Disconnect(c) \/ ChannelClosed(c)
  <2>1. "logoutSend" \notin Loading
    BY DEF Loading
  <2>. QED BY <1>6, <2>1, NothingMoves DEF Disconnect, ChannelClosed, EndLoops
<1>. QED
  BY <1>1, <1>2, <1>3, <1>4, <1>5, <1>6 DEF HandlerStep, HandlerSend, Outside

-----------------------------------------------------------------------------
(* Entering, changing and leaving the world                                *)

\* A player of an exclusive character is its only holder, and nothing of the
\* character is on its way to the database.
LEMMA PlayerIsAlone ==
    ASSUME Kept, NEW c \in players, exclusive[name[c]]
    PROVE  /\ c \in Conn /\ name[c] \in Char
           /\ \A d \in Conn : name[d] = name[c] /\ Active(d) => d = c
           /\ ~PendingSave(name[c])
<1>. USE DEF Kept, Inv
<1>1. c \in Conn /\ name[c] \in Char
  BY KeptTypes
<1>2. Active(c) /\ InOnePlace(name[c])
  BY <1>1 DEF ProgressInv, OnePlace, Active
<1>. QED BY <1>1, <1>2 DEF InOnePlace

\* Game::logout and the end of do_death: the player becomes a record.
LEMMA Departs ==
    ASSUME Kept, Typed', NEW c \in players, NEW r \in Row,
           saves' = Append(saves, [name |-> name[c], row |-> r]),
           UNCHANGED <<pc, name, save, writing, db, alive, server, exclusive, lossy>>,
           players' = players \ {c},
           state' = [state EXCEPT ![c] = Blank],
           records' = [records EXCEPT ![c] = @ + 1],
           \A x \in Char : x # name[c] => latest'[x] = latest[x],
           Undisturbed(name[c]) => AtVersion(r, latest'[name[c]])
    PROVE  ProgressInv'
<1>. USE DEF Kept, Inv, ProgressInv
<1>0. /\ players \subseteq Conn /\ state \in [Conn -> Row] /\ records \in [Conn -> Nat]
      /\ c \in Conn /\ name[c] \in Char /\ records[c] = 0
  BY KeptTypes DEF RecordsInv, RecordsCount
<1>. DEFINE rec == [name |-> name[c], row |-> r]  last == Len(Pipeline) + 1
<1>1. rec \in SaveRecord /\ rec.name = name[c] /\ rec.row = r
  BY <1>0 DEF SaveRecord
<1>. HIDE DEF rec
<1>2. /\ last \in DOMAIN Pipeline'
      /\ Pipeline'[last] = rec
      /\ \A i \in DOMAIN Pipeline : i \in DOMAIN Pipeline' /\ Pipeline'[i] = Pipeline[i]
      /\ \A i \in DOMAIN Pipeline' : i \in DOMAIN Pipeline \/ i = last
  BY <1>1, PipelineGrows DEF rec
<1>. HIDE DEF last
<1>3. /\ \A d \in Conn : Active(d)' => Active(d)
      /\ \A d \in Conn : d # c => (Awaiting(d)' <=> Awaiting(d))
      /\ ~Awaiting(c)'
      /\ c \notin players' /\ records'[c] = 1
      /\ \A d \in Conn : d # c => /\ d \in players' <=> d \in players
                                  /\ state'[d] = state[d] /\ records'[d] = records[d]
  BY <1>0 DEF Active, Awaiting
<1>4. ASSUME NEW x \in Char, x # name[c]
      PROVE  /\ PendingSave(x)' <=> PendingSave(x)
             /\ Playing(x)' <=> Playing(x)
  BY <1>0, <1>1, <1>2, <1>4 DEF PendingSave, Playing
<1>5. PendingSave(name[c])'
  BY <1>1, <1>2 DEF PendingSave
<1>6. exclusive[name[c]] => /\ \A d \in Conn : name[d] = name[c] /\ Active(d) => d = c
                            /\ ~PendingSave(name[c])
  BY PlayerIsAlone
<1>7. OnePlace'
  <2>1. ASSUME NEW x \in Char, exclusive[x] PROVE InOnePlace(x)'
    <3>1. InOnePlace(x)
      BY <2>1 DEF OnePlace
    <3>2. CASE x = name[c]
      <4>1. \A i \in DOMAIN Pipeline : Pipeline[i].name # x
        BY <1>6, <2>1, <3>2 DEF PendingSave
      <4>2. \A i \in DOMAIN Pipeline' : Pipeline'[i].name = x => i = last
        BY <1>2, <4>1
      <4>. QED BY <1>3, <1>6, <2>1, <3>2, <4>2 DEF InOnePlace
    <3>3. CASE x # name[c]
      BY <1>1, <1>2, <1>3, <1>4, <3>1, <3>3 DEF InOnePlace
    <3>. QED BY <3>2, <3>3
  <2>. QED BY <2>1 DEF OnePlace
<1>8. Newest'
  <2>1. ASSUME NEW x \in Char, Undisturbed(x)' PROVE AllAt(x, latest[x])'
    <3>1. AllAt(x, latest[x]) /\ Undisturbed(x) /\ exclusive[x]
      BY <2>1 DEF Newest, Undisturbed
    <3>2. CASE x = name[c]
      <4>1. \A i \in DOMAIN Pipeline : Pipeline[i].name # x
        BY <1>6, <3>1, <3>2 DEF PendingSave
      <4>2. \A i \in DOMAIN Pipeline' : Pipeline'[i].name = x => Pipeline'[i] = rec
        BY <1>2, <4>1
      <4>3. AtVersion(rec.row, latest'[x])
        BY <1>1, <3>1, <3>2
      <4>4. \A i \in DOMAIN writing' : writing'[i].name # x
        <5>1. \A i \in DOMAIN writing : i \in DOMAIN Pipeline /\ Pipeline[i] = writing[i]
          BY KeptTypes DEF Pipeline
        <5>. QED BY <4>1, <5>1
      <4>5. \A d \in Conn : name[d] = x => ~(pc[d] = "loadItems") /\ ~Awaiting(d)' /\ d \notin players'
        <5>1. \A d \in Conn : name[d] = x /\ Active(d) => d = c
          BY <1>6, <3>1, <3>2
        <5>2. pc[c] # "loadItems"
          BY <1>0 DEF RecordsInv, RecordsCount
        <5>. QED BY <1>3, <5>1, <5>2 DEF Active, Awaiting, Loading
      <4>6. \A d \in players' : d \in Conn
        BY <1>0
      <4>. HIDE DEF AtVersion
      <4>. QED BY <1>5, <3>2, <4>2, <4>3, <4>4, <4>5, <4>6 DEF AllAt
    <3>3. CASE x # name[c]
      <4>1. latest'[x] = latest[x]
        BY <3>3
      <4>. QED BY <1>0, <1>1, <1>2, <1>3, <1>4, <3>1, <3>3, <4>1, ZenonT(30) DEF AllAt
    <3>. QED BY <3>2, <3>3
  <2>. QED BY <2>1 DEF Newest
<1>9. Drained'
  <2>1. alive
    BY DEF Drained
  <2>2. server # "exited"
    BY <2>1 DEF Drained
  <2>. QED BY <2>1, <2>2 DEF Drained
<1>. QED BY <1>7, <1>8, <1>9

\* Game::logout of a player that is present, with the row it had in the world.
LEMMA LeaveKept ==
    ASSUME Kept, Typed', NEW c \in players, NEW rest, Leave(c, rest)
    PROVE  ProgressInv'
<1>. USE DEF Kept, Inv
<1>1. c \in Conn /\ name[c] \in Char /\ state[c] \in Row
  BY KeptTypes
<1>2. /\ saves' = Append(saves, [name |-> name[c], row |-> state[c]])
      /\ UNCHANGED <<pc, name, save, writing, db, alive, server, exclusive, lossy, latest>>
      /\ players' = players \ {c}
      /\ state' = [state EXCEPT ![c] = Blank]
      /\ records' = [records EXCEPT ![c] = @ + 1]
  BY DEF Leave, connVars
<1>3. Undisturbed(name[c]) => AtVersion(state[c], latest'[name[c]])
  BY <1>1, <1>2 DEF ProgressInv, Newest, AllAt
<1>. QED BY <1>1, <1>2, <1>3, Departs

\* The end of do_death, with the row of the temple.
LEMMA BuryKept ==
    ASSUME Kept, Typed', Bury, Head(stack).c \in players
    PROVE  ProgressInv'
<1>. USE DEF Kept, Inv
<1>. DEFINE c == Head(stack).c  n == Bump(name[c])
<1>1. c \in Conn /\ name[c] \in Char /\ latest \in [Char -> 1..MaxVersion]
  BY KeptTypes
<1>2. n \in 0..MaxVersion
  <2>1. GhostType
    BY DEF Typed, TypeOK
  <2>. QED BY <1>1, <2>1, BumpInRange
<1>3. /\ saves' = Append(saves, [name |-> name[c], row |-> Uniform(n)])
      /\ UNCHANGED <<pc, name, save, writing, db, alive, server, exclusive, lossy>>
      /\ players' = players \ {c}
      /\ state' = [state EXCEPT ![c] = Blank]
      /\ records' = [records EXCEPT ![c] = @ + 1]
      /\ latest' = [latest EXCEPT ![name[c]] = n]
  BY DEF Bury, connVars
<1>. HIDE DEF n
<1>4. Uniform(n) \in Row /\ AtVersion(Uniform(n), n)
  BY <1>2, UniformIsRow DEF Uniform, AtVersion
<1>5. latest'[name[c]] = n /\ \A x \in Char : x # name[c] => latest'[x] = latest[x]
  BY <1>1, <1>3
<1>. HIDE DEF c
<1>6. c \in players
  BY DEF c
<1>. QED BY <1>3, <1>4, <1>5, <1>6, Departs

\* A command or a blow changes a player, which is then the only place of its
\* character.
LEMMA Changes ==
    ASSUME Kept, Typed', NEW c \in players, NEW dead \in BOOLEAN, Change(c, dead),
           UNCHANGED <<pc, name, save, players, saves, writing, db, alive, server,
                       exclusive, lossy, records>>
    PROVE  ProgressInv'
<1>. USE DEF Kept, Inv, ProgressInv
<1>. DEFINE ch == name[c]  v == Bump(name[c])
<1>0. /\ players \subseteq Conn /\ c \in Conn /\ ch \in Char
      /\ state \in [Conn -> Row] /\ latest \in [Char -> 1..MaxVersion]
  BY KeptTypes
<1>1. /\ state' = [state EXCEPT ![c] = [Uniform(v) EXCEPT !.dead = dead]]
      /\ latest' = [latest EXCEPT ![ch] = v]
  BY DEF Change
<1>. HIDE DEF v
<1>2. Pipeline' = Pipeline
  BY DEF Pipeline
<1>3. AtVersion([Uniform(v) EXCEPT !.dead = dead], v)
  BY DEF AtVersion, Uniform
<1>4. /\ state'[c] = [Uniform(v) EXCEPT !.dead = dead] /\ latest'[ch] = v
      /\ \A d \in Conn : d # c => state'[d] = state[d]
      /\ \A x \in Char : x # ch => latest'[x] = latest[x]
  BY <1>0, <1>1
<1>5. AtVersion(state'[c], v)
  BY <1>3, <1>4
<1>. HIDE <1>1, <1>3
<1>6. \A d \in Conn : (Active(d)' <=> Active(d)) /\ (Awaiting(d)' <=> Awaiting(d))
  BY DEF Active, Awaiting
<1>7. \A x \in Char : /\ PendingSave(x)' <=> PendingSave(x)
                      /\ Playing(x)' <=> Playing(x)
                      /\ Undisturbed(x)' <=> Undisturbed(x)
  BY <1>2 DEF PendingSave, Playing, Undisturbed
<1>8. OnePlace'
  <2>1. \A x \in Char : InOnePlace(x) => InOnePlace(x)'
    BY <1>2, <1>6, <1>7 DEF InOnePlace
  <2>. QED BY <2>1 DEF OnePlace
<1>9. Newest'
  <2>1. ASSUME NEW x \in Char, Undisturbed(x)' PROVE AllAt(x, latest[x])'
    <3>1. AllAt(x, latest[x]) /\ exclusive[x]
      BY <1>7, <2>1 DEF Newest, Undisturbed
    <3>2. CASE x = ch
      <4>1. (\A d \in Conn : name[d] = x /\ Active(d) => d = c) /\ ~PendingSave(x)
        BY <3>1, <3>2, PlayerIsAlone
      <4>2. \A i \in DOMAIN Pipeline : Pipeline[i].name # x
        BY <4>1 DEF PendingSave
      <4>3. \A i \in DOMAIN writing : writing[i].name # x
        <5>1. \A i \in DOMAIN writing : i \in DOMAIN Pipeline /\ Pipeline[i] = writing[i]
          BY KeptTypes DEF Pipeline
        <5>. QED BY <4>2, <5>1
      <4>4. pc[c] # "loadItems" /\ ~Awaiting(c)
        BY <1>0 DEF RecordsInv, RecordsCount, Awaiting
      <4>5. Playing(x)
        BY <3>2 DEF Playing
      <4>6. \A d \in Conn : name[d] = x =>
               /\ pc[d] # "loadItems" /\ ~Awaiting(d)
               /\ d \in players => AtVersion(state'[d], latest'[x])
        BY <1>4, <1>5, <3>2, <4>1, <4>4 DEF Active, Awaiting, Loading
      <4>7. \A d \in players : d \in Conn
        BY <1>0
      <4>. QED BY <1>2, <1>6, <1>7, <4>2, <4>3, <4>5, <4>6, <4>7 DEF AllAt
    <3>3. CASE x # ch
      <4>1. \A d \in players : d \in Conn
        BY <1>0
      <4>. HIDE DEF AtVersion
      <4>. QED BY <1>2, <1>4, <1>6, <1>7, <3>1, <3>3, <4>1 DEF AllAt
    <3>. QED BY <3>2, <3>3
  <2>. QED BY <2>1 DEF Newest
<1>10. Drained'
  BY <1>2 DEF Drained
<1>. QED BY <1>8, <1>9, <1>10

\* Game::login: the row the handler read becomes the player's.
LEMMA LoginKept ==
    ASSUME Kept, Typed', HandleLogin
    PROVE  ProgressInv'
<1>. USE DEF Kept, Inv, ProgressInv
<1>. SUFFICES ASSUME NEW c, c = Head(inbox).c PROVE ProgressInv'
  OBVIOUS
<1>1. c \in Conn /\ alive /\ pc[c] = "loginWait" /\ c \notin players /\ records[c] = 0
  BY ReceiveTakesHead, ReceiveKeepsFresh DEF HandleLogin
<1>2. /\ players' = players \union {c}
      /\ state' = [state EXCEPT ![c] = save[c]]
      /\ save' = [save EXCEPT ![c] = Blank]
      /\ UNCHANGED <<pc, name, saves, writing, db, alive, server, latest, exclusive,
                     lossy, records>>
  BY DEF HandleLogin, diskVars, ghostVars
<1>0. /\ players \subseteq Conn /\ name[c] \in Char
      /\ save \in [Conn -> Row] /\ state \in [Conn -> Row]
  BY <1>1, KeptTypes DEF Loading
<1>3. Pipeline' = Pipeline
  BY <1>2 DEF Pipeline
<1>4. /\ Active(c) /\ Awaiting(c) /\ ~Awaiting(c)'
      /\ \A d \in Conn : Active(d)' <=> Active(d)
      /\ \A d \in Conn : d # c => /\ Awaiting(d)' <=> Awaiting(d)
                                  /\ save'[d] = save[d] /\ state'[d] = state[d]
      /\ state'[c] = save[c]
  <2>1. Active(c) /\ Awaiting(c) /\ ~Awaiting(c)'
    BY <1>1, <1>2 DEF Active, Awaiting, Loading
  <2>2. \A d \in Conn : Active(d)' <=> Active(d)
    BY <1>1, <1>2 DEF Active, Loading
  <2>3. \A d \in Conn : d # c => (Awaiting(d)' <=> Awaiting(d))
    BY <1>2 DEF Awaiting
  <2>4. state'[c] = save[c] /\ \A d \in Conn : d # c => save'[d] = save[d] /\ state'[d] = state[d]
    BY <1>0, <1>1, <1>2
  <2>. QED BY <2>1, <2>2, <2>3, <2>4
<1>5. \A x \in Char : /\ PendingSave(x)' <=> PendingSave(x)
                      /\ Undisturbed(x)' <=> Undisturbed(x)
                      /\ Playing(x)' <=> Playing(x) \/ x = name[c]
  BY <1>2, <1>3 DEF PendingSave, Undisturbed, Playing
<1>6. exclusive[name[c]] => ~PendingSave(name[c])
  BY <1>0, <1>1, <1>4 DEF OnePlace, InOnePlace
<1>7. OnePlace'
  <2>1. ASSUME NEW x \in Char, exclusive[x] PROVE InOnePlace(x)'
    <3>1. InOnePlace(x)
      BY <2>1 DEF OnePlace
    <3>2. name[c] = x => ~PendingSave(x)
      BY <1>6, <2>1
    <3>. QED BY <1>2, <1>3, <1>4, <1>5, <3>1, <3>2 DEF InOnePlace
  <2>. QED BY <1>2, <2>1 DEF OnePlace
<1>8. Newest'
  <2>1. ASSUME NEW x \in Char, Undisturbed(x)' PROVE AllAt(x, latest[x])'
    <3>1. AllAt(x, latest[x])
      BY <1>5, <2>1 DEF Newest
    <3>2. \A d \in players' : name[d] = x => AtVersion(state'[d], latest[x])
      BY <1>0, <1>1, <1>2, <1>4, <3>1 DEF AllAt
    <3>3. \A d \in Conn : name[d] = x =>
              /\ pc[d] = "loadItems" => save'[d].stats = latest[x]
              /\ Awaiting(d)' => AtVersion(save'[d], latest[x])
      <4>1. ASSUME NEW d \in Conn, name[d] = x
            PROVE  /\ pc[d] = "loadItems" => save'[d].stats = latest[x]
                   /\ Awaiting(d)' => AtVersion(save'[d], latest[x])
        <5>1. CASE d = c
          BY <1>1, <1>4, <5>1
        <5>2. CASE d # c
          BY <1>4, <3>1, <4>1, <5>2 DEF AllAt
        <5>. QED BY <5>1, <5>2
      <4>. QED BY <4>1
    <3>. QED BY <1>2, <1>3, <1>5, <3>1, <3>2, <3>3 DEF AllAt
  <2>. QED BY <2>1 DEF Newest
<1>9. Drained'
  BY <1>1, <1>2, <1>3 DEF Drained
<1>. QED BY <1>7, <1>8, <1>9

-----------------------------------------------------------------------------
(* Shutdown, the save worker and the crash                                 *)

\* An ordering of a finite set has every element at one place.
LEMMA OrderingIsBijection ==
    ASSUME NEW S, IsFiniteSet(S), NEW s \in SetToSeqs(S)
    PROVE  /\ s \in Seq(S) /\ DOMAIN s = 1..Len(s)
           /\ \A i, j \in DOMAIN s : s[i] = s[j] => i = j
           /\ \A x \in S : \E i \in DOMAIN s : s[i] = x
<1>. DEFINE D == 1..Cardinality(S)
<1>1. Cardinality(S) \in Nat /\ Cardinality(D) = Cardinality(S)
  BY FS_CardinalityType, FS_Interval
<1>2. s \in [D -> S] /\ \A i, j \in D : i # j => s[i] # s[j]
  BY DEF SetToSeqs
<1>3. s \in Seq(S) /\ DOMAIN s = 1..Len(s)
  BY OrderingIsSequence
<1>. HIDE DEF D
<1>4. s \in Injection(D, S)
  BY <1>2 DEF Injection, IsInjective
<1>5. s \in Surjection(D, S)
  BY <1>1, <1>4, FS_Injection
<1>6. \A x \in S : \E i \in DOMAIN s : s[i] = x
  BY <1>2, <1>5 DEF Surjection
<1>. QED BY <1>2, <1>3, <1>6

\* shutdown_and_save: every player becomes a record at once.
LEMMA ShutdownKept ==
    ASSUME Kept, Typed', HandleShutdown
    PROVE  ProgressInv'
<1>. USE DEF Kept, Inv, ProgressInv
<1>1. PICK s \in SetToSeqs(players) :
        saves' = saves \o [i \in 1..Len(s) |-> [name |-> name[s[i]], row |-> state[s[i]]]]
  BY DEF HandleShutdown
<1>2. /\ players' = {} /\ alive' = FALSE
      /\ UNCHANGED <<pc, name, save, writing, db, server, latest, exclusive, lossy>>
      /\ records' = [c \in Conn |-> IF c \in players THEN records[c] + 1 ELSE records[c]]
  BY DEF HandleShutdown, connVars
<1>3. alive
  BY ReceiveKeepsFresh DEF HandleShutdown
<1>0. /\ players \subseteq Conn /\ IsFiniteSet(players)
      /\ state \in [Conn -> Row]
      /\ \A c \in players : name[c] \in Char /\ records[c] = 0
  <2>1. players \subseteq Conn /\ state \in [Conn -> Row] /\ \A c \in players : name[c] \in Char
    BY KeptTypes
  <2>2. IsFiniteSet(players)
    BY <2>1, SessionsAssumption, FS_Subset
  <2>. QED BY <2>1, <2>2 DEF RecordsInv, RecordsCount
<1>4. /\ s \in Seq(players) /\ DOMAIN s = 1..Len(s)
      /\ \A i, j \in DOMAIN s : s[i] = s[j] => i = j
      /\ \A c \in players : \E i \in DOMAIN s : s[i] = c
  BY <1>0, OrderingIsBijection
<1>. DEFINE last == [i \in 1..Len(s) |-> [name |-> name[s[i]], row |-> state[s[i]]]]
            n == Len(Pipeline)
<1>5. last \in Seq(SaveRecord) /\ Len(last) = Len(s)
      /\ \A i \in DOMAIN s : last[i].name = name[s[i]] /\ last[i].row = state[s[i]]
  <2>1. \A i \in 1..Len(s) : s[i] \in players
    BY <1>4
  <2>2. \A i \in 1..Len(s) : [name |-> name[s[i]], row |-> state[s[i]]] \in SaveRecord
    BY <1>0, <2>1 DEF SaveRecord
  <2>3. Len(s) \in Nat
    BY <1>4
  <2>. QED BY <1>4, <2>2, <2>3
<1>6. saves' = saves \o last
  BY <1>1
<1>. HIDE DEF last
<1>7. /\ Pipeline' = Pipeline \o last
      /\ Pipeline \in Seq(SaveRecord)
  <2>1. writing \in Seq(SaveRecord) /\ saves \in Seq(SaveRecord)
    BY KeptTypes
  <2>. QED BY <1>2, <1>5, <1>6, <2>1, ConcatAssociative, PipelineType, SMTT(30) DEF Pipeline
<1>8. /\ n \in Nat
      /\ \A i \in DOMAIN Pipeline : i \in DOMAIN Pipeline' /\ Pipeline'[i] = Pipeline[i]
      /\ \A i \in DOMAIN Pipeline' :
            \/ i \in DOMAIN Pipeline
            \/ i - n \in DOMAIN s /\ i = (i - n) + n /\ Pipeline'[i] = last[i - n]
      /\ \A i \in DOMAIN s : i + n \in DOMAIN Pipeline' /\ Pipeline'[i + n] = last[i]
  <2>. HIDE DEF Pipeline
  <2>0. DOMAIN Pipeline = 1..Len(Pipeline) /\ Len(Pipeline) \in Nat /\ Len(s) \in Nat
    BY <1>4, <1>7
  <2>1. DOMAIN Pipeline' = 1..(Len(Pipeline) + Len(s))
    <3>1. Pipeline' \in Seq(SaveRecord) /\ Len(Pipeline') = Len(Pipeline) + Len(s)
      <4>1. /\ Pipeline \o last \in Seq(SaveRecord)
            /\ Len(Pipeline \o last) = Len(Pipeline) + Len(last)
        BY <1>5, <1>7, ConcatProperties
      <4>. QED BY <1>5, <1>7, <4>1
    <3>. QED BY <3>1
  <2>2. \A i \in 1..(Len(Pipeline) + Len(s)) : Pipeline'[i] =
           IF i <= Len(Pipeline) THEN Pipeline[i] ELSE last[i - Len(Pipeline)]
    BY <1>5, <1>7, ConcatProperties
  <2>3. DOMAIN s = 1..Len(s)
    BY <1>4
  <2>4. \A i \in DOMAIN Pipeline : i \in DOMAIN Pipeline' /\ Pipeline'[i] = Pipeline[i]
    BY <2>0, <2>1, <2>2
  <2>5. ASSUME NEW i \in DOMAIN Pipeline'
        PROVE  \/ i \in DOMAIN Pipeline
               \/ i - n \in DOMAIN s /\ i = (i - n) + n /\ Pipeline'[i] = last[i - n]
    <3>1. CASE i <= n
      BY <2>0, <2>1, <3>1
    <3>2. CASE ~ (i <= n)
      <4>1. i - n \in 1..Len(s) /\ i = (i - n) + n
        BY <2>0, <2>1, <3>2
      <4>2. Pipeline'[i] = last[i - n]
        BY <2>1, <2>2, <3>2
      <4>. QED BY <2>3, <4>1, <4>2
    <3>. QED BY <3>1, <3>2
  <2>6. ASSUME NEW i \in DOMAIN s PROVE i + n \in DOMAIN Pipeline' /\ Pipeline'[i + n] = last[i]
    <3>1. i + n \in 1..(Len(Pipeline) + Len(s)) /\ ~ (i + n <= Len(Pipeline)) /\ (i + n) - Len(Pipeline) = i
      BY <2>0, <2>3
    <3>. QED BY <2>1, <2>2, <3>1
  <2>. QED BY <2>0, <2>4, <2>5, <2>6
<1>. HIDE DEF n
<1>9. \A c \in Conn : /\ Active(c)' => Active(c) /\ pc[c] \in Loading
                      /\ c \in players => records'[c] = 1
                      /\ c \notin players => records'[c] = records[c]
                      /\ Awaiting(c)' => Awaiting(c)
  BY <1>0, <1>2 DEF Active, Awaiting
<1>10. \A x \in Char : ~Playing(x)'
  BY <1>2 DEF Playing
<1>11. ASSUME NEW x \in Char, exclusive[x]
       PROVE  \/ /\ ~Playing(x)
                 /\ \A i \in DOMAIN s : last[i].name # x
                 /\ \A i \in DOMAIN Pipeline' : Pipeline'[i].name = x =>
                       i \in DOMAIN Pipeline /\ Pipeline'[i] = Pipeline[i]
                 /\ PendingSave(x)' <=> PendingSave(x)
              \/ \E c \in players, k \in DOMAIN s :
                    /\ name[c] = x /\ s[k] = c
                    /\ \A d \in Conn : name[d] = x /\ Active(d) => d = c
                    /\ \A i \in DOMAIN Pipeline' : Pipeline'[i].name = x =>
                          i = k + n /\ Pipeline'[i] = last[k]
                    /\ ~PendingSave(x)
                    /\ PendingSave(x)'
  <2>1. CASE ~Playing(x)
    <3>1. \A i \in DOMAIN s : last[i].name # x
      BY <1>4, <1>5, <2>1 DEF Playing
    <3>2. \A i \in DOMAIN Pipeline' : Pipeline'[i].name = x =>
              i \in DOMAIN Pipeline /\ Pipeline'[i] = Pipeline[i]
      BY <1>8, <3>1
    <3>3. PendingSave(x)' <=> PendingSave(x)
      BY <1>8, <3>2 DEF PendingSave
    <3>. QED BY <2>1, <3>1, <3>2, <3>3
  <2>2. CASE Playing(x)
    <3>1. PICK c \in players : name[c] = x
      BY <2>2 DEF Playing
    <3>2. PICK k \in DOMAIN s : s[k] = c
      BY <1>4
    <3>3. (\A d \in Conn : name[d] = x /\ Active(d) => d = c) /\ ~PendingSave(x)
      BY <1>11, <3>1, PlayerIsAlone
    <3>4. \A i \in DOMAIN Pipeline : Pipeline[i].name # x
      BY <3>3 DEF PendingSave
    <3>5. \A i \in DOMAIN s : last[i].name = x => i = k
      <4>1. \A i \in DOMAIN s : s[i] \in Conn /\ Active(s[i])
        BY <1>0, <1>4 DEF Active
      <4>. QED BY <1>4, <1>5, <3>2, <3>3, <4>1
    <3>6. \A i \in DOMAIN Pipeline' : Pipeline'[i].name = x =>
              i = k + n /\ Pipeline'[i] = last[k]
      <4>1. ASSUME NEW i \in DOMAIN Pipeline', Pipeline'[i].name = x
            PROVE  i = k + n /\ Pipeline'[i] = last[k]
        <5>1. i - n \in DOMAIN s /\ i = (i - n) + n /\ Pipeline'[i] = last[i - n]
          BY <1>8, <3>4, <4>1
        <5>2. i - n = k
          BY <3>5, <4>1, <5>1
        <5>. QED BY <5>1, <5>2
      <4>. QED BY <4>1
    <3>7. PendingSave(x)'
      <4>1. k + n \in DOMAIN Pipeline' /\ Pipeline'[k + n].name = x
        BY <1>5, <1>8, <3>1, <3>2
      <4>. QED BY <4>1 DEF PendingSave
    <3>. QED BY <3>1, <3>2, <3>3, <3>6, <3>7
  <2>. QED BY <2>1, <2>2
<1>12. OnePlace'
  <2>1. ASSUME NEW x \in Char, exclusive[x] PROVE InOnePlace(x)'
    <3>1. InOnePlace(x)
      BY <2>1 DEF OnePlace
    <3>2. \A c \in players : c \in Conn /\ Active(c)
      BY <1>0 DEF Active
    <3>3. ASSUME ~Playing(x),
                 \A i \in DOMAIN Pipeline' : Pipeline'[i].name = x =>
                       i \in DOMAIN Pipeline /\ Pipeline'[i] = Pipeline[i],
                 PendingSave(x)' <=> PendingSave(x)
          PROVE  InOnePlace(x)'
      <4>1. \A d \in Conn : name[d] = x => d \notin players
        BY <3>3 DEF Playing
      <4>. QED BY <1>2, <1>9, <3>1, <3>3, <4>1 DEF InOnePlace
    <3>4. ASSUME NEW c \in players, NEW k \in DOMAIN s, name[c] = x,
                 \A d \in Conn : name[d] = x /\ Active(d) => d = c,
                 \A i \in DOMAIN Pipeline' : Pipeline'[i].name = x => i = k + n
          PROVE  InOnePlace(x)'
      BY <1>2, <1>9, <3>2, <3>4 DEF InOnePlace
    <3>. QED BY <1>11, <2>1, <3>3, <3>4
  <2>. QED BY <1>2, <2>1 DEF OnePlace
<1>13. Newest'
  <2>1. ASSUME NEW x \in Char, Undisturbed(x)' PROVE AllAt(x, latest[x])'
    <3>1. AllAt(x, latest[x]) /\ exclusive[x]
      BY <1>2, <2>1 DEF Newest, Undisturbed
    <3>2. \A d \in Conn : name'[d] = x =>
              /\ pc'[d] = "loadItems" => save'[d].stats = latest'[x]
              /\ Awaiting(d)' => AtVersion(save'[d], latest'[x])
      BY <1>2, <1>9, <3>1 DEF AllAt
    <3>3. \A i \in DOMAIN writing' : writing'[i].name = x => db'[x].stats = latest'[x]
      BY <1>2, <3>1 DEF AllAt
    <3>4. CASE /\ ~Playing(x)
               /\ \A i \in DOMAIN Pipeline' : Pipeline'[i].name = x =>
                       i \in DOMAIN Pipeline /\ Pipeline'[i] = Pipeline[i]
               /\ PendingSave(x)' <=> PendingSave(x)
      BY <1>2, <3>1, <3>2, <3>3, <3>4 DEF AllAt
    <3>5. ASSUME NEW c \in players, NEW k \in DOMAIN s, name[c] = x, s[k] = c,
                 \A i \in DOMAIN Pipeline' : Pipeline'[i].name = x => Pipeline'[i] = last[k],
                 PendingSave(x)'
          PROVE  AllAt(x, latest[x])'
      <4>1. AtVersion(last[k].row, latest'[x])
        BY <1>2, <1>5, <3>1, <3>5 DEF AllAt
      <4>. QED BY <1>2, <3>2, <3>3, <3>5, <4>1 DEF AllAt
    <3>. QED BY <1>11, <3>1, <3>4, <3>5
  <2>. QED BY <2>1 DEF Newest
<1>14. Drained'
  BY <1>2, <1>3 DEF Drained
<1>. QED BY <1>12, <1>13, <1>14

\* The stats columns are written: the record is now the half-written one.
LEMMA SaveStatsKept ==
    ASSUME Kept, Typed', SaveStats
    PROVE  ProgressInv'
<1>. USE DEF Kept, Inv, ProgressInv
<1>. DEFINE r == Head(saves)
<1>1. /\ writing = <<>> /\ saves # <<>> /\ writing' = <<r>> /\ saves' = Tail(saves)
      /\ db' = [db EXCEPT ![r.name].stats = r.row.stats, ![r.name].dead = r.row.dead]
      /\ UNCHANGED <<pc, name, save, players, state, alive, server, latest, exclusive,
                     lossy, records>>
  BY DEF SaveStats, connVars, worldVars, ghostVars
<1>2. /\ saves \in Seq(SaveRecord) /\ r \in SaveRecord
      /\ Pipeline = saves /\ Pipeline' = saves
      /\ 1 \in DOMAIN Pipeline /\ Pipeline[1] = r
  BY <1>1, KeptTypes DEF Pipeline
<1>. SUFFICES ASSUME NEW q, q = r PROVE ProgressInv'
  OBVIOUS
<1>. HIDE DEF r
<1>3. q.name \in Char /\ q.row \in Row /\ db \in [Char -> Row]
  BY <1>2, KeptTypes DEF SaveRecord
<1>4. /\ db'[q.name].stats = q.row.stats /\ db'[q.name].items = db[q.name].items
      /\ \A x \in Char : x # q.name => db'[x] = db[x]
      /\ DOMAIN writing' = {1} /\ writing'[1] = q
  BY <1>1, <1>3 DEF Row
<1>5. PendingSave(q.name)
  BY <1>2 DEF PendingSave
<1>6. \A c \in Conn : (Active(c)' <=> Active(c)) /\ (Awaiting(c)' <=> Awaiting(c))
  BY <1>1 DEF Active, Awaiting
<1>7. \A x \in Char : /\ PendingSave(x)' <=> PendingSave(x)
                      /\ Playing(x)' <=> Playing(x)
                      /\ Undisturbed(x)' <=> Undisturbed(x)
  BY <1>1, <1>2 DEF PendingSave, Playing, Undisturbed
<1>8. OnePlace'
  <2>1. \A x \in Char : InOnePlace(x) => InOnePlace(x)'
    BY <1>1, <1>2, <1>6, <1>7 DEF InOnePlace
  <2>. QED BY <1>1, <2>1 DEF OnePlace
<1>9. Newest'
  <2>1. ASSUME NEW x \in Char, Undisturbed(x)' PROVE AllAt(x, latest[x])'
    <3>1. AllAt(x, latest[x])
      BY <1>7, <2>1 DEF Newest
    <3>2. q.name = x => AtVersion(q.row, latest[x])
      BY <1>2, <3>1 DEF AllAt
    <3>3. \A i \in DOMAIN writing' : writing'[i].name = x => db'[x].stats = latest[x]
      BY <1>4, <3>2 DEF AtVersion
    <3>4. ~Playing(x) /\ ~PendingSave(x) => AtVersion(db'[x], latest[x])
      BY <1>4, <1>5, <3>1 DEF AllAt
    <3>. QED BY <1>1, <1>2, <1>6, <1>7, <3>1, <3>3, <3>4 DEF AllAt
  <2>. QED BY <2>1 DEF Newest
<1>10. Drained'
  <2>1. Pipeline # <<>>
    BY <1>1, <1>2
  <2>. QED BY <1>1, <2>1 DEF Drained
<1>. QED BY <1>8, <1>9, <1>10

\* The rows of the items are written: the record is on disk in full.
LEMMA SaveItemsKept ==
    ASSUME Kept, Typed', SaveItems
    PROVE  ProgressInv'
<1>. USE DEF Kept, Inv, ProgressInv
<1>1. /\ writing # <<>> /\ writing' = <<>> /\ saves' = saves
      /\ db' = [db EXCEPT ![Head(writing).name].items = Head(writing).row.items]
      /\ UNCHANGED <<pc, name, save, players, state, alive, server, latest, exclusive,
                     lossy, records>>
  BY DEF SaveItems, connVars, worldVars, ghostVars
<1>2. /\ writing \in Seq(SaveRecord) /\ saves \in Seq(SaveRecord)
      /\ Head(writing) \in SaveRecord /\ 1 \in DOMAIN writing /\ Head(writing) = writing[1]
  BY <1>1, KeptTypes
<1>3. Pipeline # <<>> /\ Pipeline[1] = Head(writing)
  BY <1>1, <1>2 DEF Pipeline
<1>4. /\ 1 \in DOMAIN Pipeline
      /\ \A i \in DOMAIN Pipeline' :
            i + 1 \in DOMAIN Pipeline /\ i + 1 # 1 /\ Pipeline'[i] = Pipeline[i + 1]
      /\ \A i \in DOMAIN Pipeline : i # 1 =>
            i - 1 \in DOMAIN Pipeline' /\ Pipeline'[i - 1] = Pipeline[i]
      /\ \A i, j \in DOMAIN Pipeline' : i + 1 = j + 1 => i = j
  BY <1>1, <1>3, PipelineShrinks
<1>. SUFFICES ASSUME NEW q, q = Head(writing) PROVE ProgressInv'
  OBVIOUS
<1>5. q.name \in Char /\ q.row \in Row /\ db \in [Char -> Row] /\ players \subseteq Conn
  BY <1>2, KeptTypes DEF SaveRecord
<1>6. /\ db'[q.name].items = q.row.items /\ db'[q.name].stats = db[q.name].stats
      /\ \A x \in Char : x # q.name => db'[x] = db[x]
  BY <1>1, <1>5 DEF Row
<1>7. \A c \in Conn : (Active(c)' <=> Active(c)) /\ (Awaiting(c)' <=> Awaiting(c))
  BY <1>1 DEF Active, Awaiting
<1>8. \A x \in Char : /\ PendingSave(x)' => PendingSave(x)
                      /\ x # q.name => (PendingSave(x)' <=> PendingSave(x))
                      /\ Playing(x)' <=> Playing(x)
                      /\ Undisturbed(x)' <=> Undisturbed(x)
  <2>1. \A x \in Char : PendingSave(x)' => PendingSave(x)
    BY <1>4 DEF PendingSave
  <2>2. \A x \in Char : x # q.name /\ PendingSave(x) => PendingSave(x)'
    BY <1>3, <1>4 DEF PendingSave
  <2>. QED BY <1>1, <2>1, <2>2 DEF Playing, Undisturbed
<1>9. OnePlace'
  <2>1. ASSUME NEW x \in Char, InOnePlace(x) PROVE InOnePlace(x)'
    <3>1. \A i, j \in DOMAIN Pipeline' :
              Pipeline'[i].name = x /\ Pipeline'[j].name = x => i = j
      BY <1>4, <2>1 DEF InOnePlace
    <3>. QED BY <1>1, <1>7, <1>8, <2>1, <3>1 DEF InOnePlace
  <2>. QED BY <1>1, <2>1 DEF OnePlace
<1>10. Newest'
  <2>1. ASSUME NEW x \in Char, Undisturbed(x)' PROVE AllAt(x, latest[x])'
    <3>1. AllAt(x, latest[x])
      BY <1>8, <2>1 DEF Newest
    <3>2. ~Playing(x)' /\ ~PendingSave(x)' => AtVersion(db'[x], latest[x])
      <4>1. CASE x = q.name
        <5>1. q.row.items = latest[x] /\ db[x].stats = latest[x]
          BY <1>2, <1>3, <1>4, <3>1, <4>1 DEF AllAt, AtVersion
        <5>. QED BY <1>6, <4>1, <5>1 DEF AtVersion
      <4>2. CASE x # q.name
        BY <1>6, <1>8, <3>1, <4>2 DEF AllAt
      <4>. QED BY <4>1, <4>2
    <3>3. \A i \in DOMAIN Pipeline' :
              Pipeline'[i].name = x => AtVersion(Pipeline'[i].row, latest[x])
      BY <1>4, <3>1 DEF AllAt
    <3>. HIDE DEF AtVersion
    <3>. QED BY <1>1, <1>7, <3>1, <3>2, <3>3 DEF AllAt
  <2>. QED BY <2>1 DEF Newest
<1>11. Drained'
  BY <1>1, <1>3 DEF Drained
<1>. QED BY <1>9, <1>10, <1>11

\* A write fails: the record is lost, and its character counts as disturbed.
LEMMA SaveFaultKept ==
    ASSUME Kept, Typed', SaveFault
    PROVE  ProgressInv'
<1>. USE DEF Kept, Inv, ProgressInv
<1>1. /\ Pipeline # <<>> /\ writing' = <<>>
      /\ saves' = IF writing = <<>> THEN Tail(saves) ELSE saves
      /\ lossy' = [lossy EXCEPT ![Head(Pipeline).name] = TRUE]
      /\ UNCHANGED <<pc, name, save, players, state, db, alive, server, latest, exclusive,
                     records>>
  BY DEF SaveFault, connVars, worldVars
<1>2. /\ 1 \in DOMAIN Pipeline /\ Head(Pipeline) = Pipeline[1] /\ Pipeline[1].name \in Char
      /\ \A i \in DOMAIN Pipeline' :
            i + 1 \in DOMAIN Pipeline /\ i + 1 # 1 /\ Pipeline'[i] = Pipeline[i + 1]
      /\ \A i \in DOMAIN Pipeline : i # 1 =>
            i - 1 \in DOMAIN Pipeline' /\ Pipeline'[i - 1] = Pipeline[i]
      /\ \A i, j \in DOMAIN Pipeline' : i + 1 = j + 1 => i = j
  BY <1>1, PipelineShrinks
<1>3. lossy \in [Char -> BOOLEAN]
  BY KeptTypes
<1>4. \A c \in Conn : (Active(c)' <=> Active(c)) /\ (Awaiting(c)' <=> Awaiting(c))
  BY <1>1 DEF Active, Awaiting
<1>5. \A x \in Char : /\ PendingSave(x)' => PendingSave(x)
                      /\ Playing(x)' <=> Playing(x)
                      /\ Undisturbed(x)' => Undisturbed(x) /\ x # Pipeline[1].name
  <2>1. \A x \in Char : PendingSave(x)' => PendingSave(x)
    BY <1>2 DEF PendingSave
  <2>. QED BY <1>1, <1>2, <1>3, <2>1 DEF Playing, Undisturbed
<1>6. \A x \in Char : x # Pipeline[1].name /\ PendingSave(x) => PendingSave(x)'
  BY <1>2 DEF PendingSave
<1>7. OnePlace'
  <2>1. ASSUME NEW x \in Char, InOnePlace(x) PROVE InOnePlace(x)'
    <3>1. \A i, j \in DOMAIN Pipeline' :
              Pipeline'[i].name = x /\ Pipeline'[j].name = x => i = j
      BY <1>2, <2>1 DEF InOnePlace
    <3>. QED BY <1>1, <1>4, <1>5, <2>1, <3>1 DEF InOnePlace
  <2>. QED BY <1>1, <2>1 DEF OnePlace
<1>8. Newest'
  <2>1. ASSUME NEW x \in Char, Undisturbed(x)' PROVE AllAt(x, latest[x])'
    <3>1. AllAt(x, latest[x]) /\ x # Pipeline[1].name
      BY <1>5, <2>1 DEF Newest
    <3>2. \A i \in DOMAIN Pipeline' :
              Pipeline'[i].name = x => AtVersion(Pipeline'[i].row, latest[x])
      BY <1>2, <3>1 DEF AllAt
    <3>. QED BY <1>1, <1>4, <1>5, <1>6, <3>1, <3>2 DEF AllAt
  <2>. QED BY <2>1 DEF Newest
<1>9. Drained'
  BY <1>1 DEF Drained
<1>. QED BY <1>7, <1>8, <1>9

\* A crash keeps the database only; characters in the world or on their way
\* out of it count as disturbed.
LEMMA CrashKept ==
    ASSUME Kept, Typed', Crash
    PROVE  ProgressInv'
<1>. USE DEF Kept, Inv, ProgressInv
<1>1. /\ players' = {} /\ saves' = <<>> /\ writing' = <<>> /\ server' = "up" /\ alive' = TRUE
      /\ pc' = [c \in Conn |-> IF pc[c] = "idle" THEN "idle" ELSE "closed"]
      /\ lossy' = [ch \in Char |-> \/ lossy[ch] \/ PendingSave(ch)
                                   \/ \E c \in players : name[c] = ch]
      /\ UNCHANGED <<name, db, latest, exclusive, records>>
  BY DEF Crash
<1>2. Pipeline' = <<>>
  BY <1>1 DEF Pipeline
<1>3. \A c \in Conn : ~Active(c)' /\ ~Awaiting(c)' /\ pc'[c] # "loadItems"
  BY <1>1 DEF Active, Awaiting, Loading
<1>4. OnePlace'
  BY <1>2, <1>3 DEF OnePlace, InOnePlace
<1>5. Newest'
  <2>1. ASSUME NEW x \in Char, Undisturbed(x)' PROVE AllAt(x, latest[x])'
    <3>1. Undisturbed(x) /\ ~PendingSave(x) /\ ~Playing(x)
      BY <1>1, <2>1 DEF Undisturbed, Playing
    <3>2. AtVersion(db'[x], latest'[x])
      BY <1>1, <3>1 DEF Newest, AllAt
    <3>. QED BY <1>1, <1>2, <1>3, <3>2 DEF AllAt
  <2>. QED BY <2>1 DEF Newest
<1>6. Drained'
  BY <1>1 DEF Drained
<1>. QED BY <1>4, <1>5, <1>6

-----------------------------------------------------------------------------

LEMMA ActorKept ==
    ASSUME Kept, Typed', Actor, server # "exited"
    PROVE  ProgressInv'
<1>. USE DEF Kept, Inv
<1>1. CASE HandleLogin
  BY <1>1, LoginKept
<1>2. CASE HandleShutdown
  BY <1>2, ShutdownKept
<1>3. CASE Reap
  BY <1>3, LeaveKept DEF Reap
<1>4. CASE Bury /\ Head(stack).c \in players
  BY <1>4, BuryKept
<1>5. CASE HandleBlow
  <2>1. PICK v \in players, dead \in BOOLEAN : Change(v, dead)
    BY <1>5 DEF HandleBlow
  <2>2. UNCHANGED <<pc, name, save, players, saves, writing, db, alive, server,
                    exclusive, lossy, records>>
    BY <1>5 DEF HandleBlow, connVars, diskVars
  <2>. QED BY <2>1, <2>2, Changes
<1>6. CASE HandleLogout
  <2>1. CASE Head(inbox).c \in players /\ Leave(Head(inbox).c, <<>>)
    BY <2>1, LeaveKept
  <2>2. CASE UNCHANGED <<connVars, worldVars, receiving, alive, diskVars,
                         server, faults, crashes, ghostVars>>
    BY <2>2, Unmoved DEF connVars, worldVars, ghostVars
  <2>. QED BY <1>6, <2>1, <2>2 DEF HandleLogout
<1>7. CASE HandlePlay
  <2>1. CASE Head(inbox).c \in players /\ Change(Head(inbox).c, FALSE)
             /\ UNCHANGED <<players, queued, exclusive, lossy, records>>
    BY <1>7, <2>1, Changes DEF HandlePlay, connVars, diskVars
  <2>2. CASE UNCHANGED <<worldVars, ghostVars>>
    BY <1>7, <2>2, Unmoved DEF HandlePlay, connVars, worldVars, ghostVars
  <2>. QED BY <1>7, <2>1, <2>2 DEF HandlePlay
<1>8. CASE HandleLight \/ PushSent \/ PushSkipped \/ Hurt \/ Die
  BY <1>8, Unmoved DEF HandleLight, PushSent, PushSkipped, Hurt, Die, connVars, ghostVars
<1>9. CASE Bury /\ Head(stack).c \notin players
  BY <1>9, Unmoved DEF Bury, connVars, diskVars
<1>10. CASE Ack
  <2>1. StackType
    BY DEF Typed, TypeOK
  <2>2. Head(stack).c \in Conn
    BY <1>10, <2>1, TopOfStack DEF Ack
  <2>3. "burst" \notin Loading
    BY DEF Loading
  <2>. QED BY <1>10, <2>2, <2>3, NothingMoves DEF Ack, ghostVars
<1>. QED
  BY <1>1, <1>2, <1>3, <1>4, <1>5, <1>6, <1>7, <1>8, <1>9, <1>10 DEF Actor, HandleCommand

LEMMA StepKept == Kept /\ [Next]_vars => Kept'
<1>. SUFFICES ASSUME Kept, [Next]_vars PROVE ProgressInv'
  BY StepInv DEF Kept
<1>0. Typed'
  BY StepTyped DEF Kept, Inv
<1>1. ASSUME NEW c \in Conn, HandlerStep(c) \/ HandlerSend(c) \/ Outside(c), server # "exited"
      PROVE  ProgressInv'
  BY <1>0, <1>1, ConnKept
<1>2. CASE Actor /\ server # "exited"
  BY <1>0, <1>2, ActorKept
<1>3. CASE Worker
  BY <1>0, <1>3, SaveStatsKept, SaveItemsKept, SaveFaultKept DEF Worker
<1>4. CASE Crash
  BY <1>0, <1>4, CrashKept
<1>5. CASE Main
  BY <1>5, Unmoved DEF Main, Signal, SendShutdown, Exit, connVars, worldVars, ghostVars
<1>6. CASE UNCHANGED vars
  BY <1>6, Unmoved DEF vars, connVars, worldVars, ghostVars
<1>. QED BY <1>1, <1>2, <1>3, <1>4, <1>5, <1>6 DEF Next, Step, Exited

LEMMA AlwaysKept == Spec => []Kept
BY InitKept, StepKept, PTL DEF Spec

\* Progress is kept between the world and the disk: as long as a character is
\* loaded only when nobody else has it, and neither a database error nor a
\* crash hits it, its newest version is in the world, in the save channel or
\* in both parts of its row, and no handler logs it in with anything older.
THEOREM ProgressCorrect == Spec => []ProgressKept
<1>1. Kept => ProgressKept
  <2>. SUFFICES ASSUME Kept PROVE ProgressKept
    OBVIOUS
  <2>. USE DEF Kept, Inv, ProgressInv
  <2>1. ASSUME NEW c \in Conn, LoggingIn(c) PROVE Awaiting(c)
    <3>1. pc[c] = "loginSend" => Awaiting(c)
      BY DEF RecordsInv, RecordsCount, Awaiting
    <3>2. ASSUME NEW i \in DOMAIN inbox, inbox[i].op = "login", inbox[i].c = c
          PROVE  Awaiting(c)
      BY <3>2 DEF RecordsInv, LoginsFresh, Awaiting
    <3>. QED BY <2>1, <3>1, <3>2 DEF LoggingIn
  <2>. QED BY <2>1 DEF Newest, AllAt, ProgressKept
<1>. QED BY <1>1, AlwaysKept, PTL

\* After a signal the process exits only with every undisturbed character on
\* disk in its newest version, whoever was online, dying, reaped or half
\* logged in when the signal came.
THEOREM ShutdownCorrect == Spec => []ShutdownLosesNothing
<1>1. Kept => ShutdownLosesNothing
  <2>. SUFFICES ASSUME Kept, server = "exited" PROVE ShutdownLosesNothing
    BY DEF ShutdownLosesNothing
  <2>1. players = {} /\ Pipeline = <<>>
    BY DEF Kept, ProgressInv, Drained
  <2>2. \A ch \in Char : ~Playing(ch) /\ ~PendingSave(ch)
    BY <2>1 DEF Playing, PendingSave
  <2>. QED BY <2>2 DEF Kept, ProgressInv, Newest, AllAt, ShutdownLosesNothing
<1>. QED BY <1>1, AlwaysKept, PTL
=============================================================================
