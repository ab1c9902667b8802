------------------------------ MODULE Sessions ------------------------------
(***************************************************************************)
(* The life of a game session, from the accepted socket to the row in the  *)
(* database.  Four kinds of concurrent task take part:                     *)
(*   - one connection handler per client (server/game_service.rs), which   *)
(*     loads the character, asks the world to log it in, and ends with a   *)
(*     Logout command;                                                     *)
(*   - the world actor (world/game), which owns all players, takes one     *)
(*     command at a time from a bounded channel and answers by pushing     *)
(*     packets into one bounded channel per session; a failed push logs    *)
(*     the session out on the spot;                                        *)
(*   - the timer tasks, which send ticks into the same command channel;    *)
(*   - the save worker (server/main.rs), which drains an unbounded channel *)
(*     of save records into SQLite (persistence/lib.rs).                   *)
(* A character is abstracted to version numbers: every change made in the  *)
(* world gives it the next version.  Its database row has two parts, read by   *)
(* separate queries and written by separate transactions.                  *)
(***************************************************************************)
EXTENDS Integers, Sequences, FiniteSets, SequencesExt

CONSTANTS
    Conn,        \* connections; each is used once, and stands for its player id
    Char,        \* character names
    NoChar,      \* the name of a connection that has not chosen one
    InboxCap,    \* capacity of the actor's command channel (64 in the code)
    PushCap,     \* capacity of a session's push channel (256 in the code)
    MaxVersion,  \* bound: versions a character may reach
    MaxFaults,   \* bound: database errors
    MaxCrashes   \* bound: process crashes

ASSUME SessionsAssumption ==
    /\ IsFiniteSet(Conn)
    /\ NoChar \notin Char
    /\ InboxCap \in Nat \ {0}
    /\ PushCap \in Nat \ {0}
    /\ MaxVersion \in Nat \ {0}
    /\ MaxFaults \in Nat
    /\ MaxCrashes \in Nat

VARIABLES
    pc,          \* what each connection handler is doing
    name,        \* the character each connection asked for
    save,        \* the row each handler has read so far
    inbox,       \* the command channel of the actor
    stack,       \* what is left of the handler the actor is running
    players,     \* connections whose player is in the world
    state,       \* the in-world row of each player
    queued,      \* packets waiting in each push channel
    receiving,   \* connections whose push receiver is alive
    alive,       \* is the actor running?
    saves,       \* the save channel
    writing,     \* the record the save worker has half written, if any (0 or 1)
    db,          \* the row of each character
    server,      \* the main task: "up", "stopping" or "exited"
    faults, crashes,
    \* History variables, read by the properties only:
    latest,      \* the newest version each character ever had
    exclusive,   \* was the character always at rest when it was loaded?
    lossy,       \* has a fault or a crash cost the character something?
    records      \* save records each session has produced

connVars  == <<pc, name, save>>
worldVars == <<players, state, queued, stack>>
diskVars  == <<saves, writing, db>>
ghostVars == <<latest, exclusive, lossy, records>>
vars == <<connVars, inbox, worldVars, receiving, alive, diskVars, server,
          faults, crashes, ghostVars>>

-----------------------------------------------------------------------------
(* Values                                                                  *)

\* A character's row: the stats columns of `players` (with the hit points
\* told apart only as dead or not), and the items, which are the rows of
\* `player_inventory` and `player_container_items`.
Row == [stats : 0..MaxVersion, dead : BOOLEAN, items : 0..MaxVersion]

Uniform(v) == [stats |-> v, dead |-> FALSE, items |-> v]

\* What a handler starts from when the load fails: a fresh character.
Blank == Uniform(0)

SaveRecord == [name : Char, row : Row]

Loading == {"loadItems", "loginSend", "loginWait"}

Command == [op : {"login", "logout", "play"}, c : Conn]
             \union [op : {"shutdown"}]

\* The rest of a running handler: packets still to push, the login reply,
\* and the two points of a killing blow where the code looks at the victim
\* again.
Frame == [do : {"push", "ack", "hurt", "die", "bury"}, c : Conn]

Push(c) == [do |-> "push", c |-> c]

\* Packets for the connections of the sequence `s`, in its order.  The packets
\* one handler sends in a row to one session count as one.
Pushes(s) == [i \in DOMAIN s |-> Push(s[i])]

ShutdownQueued == \E i \in DOMAIN inbox : inbox[i].op = "shutdown"

\* Records on their way to the database, the half-written one first.
Pipeline == writing \o saves

PendingSave(ch) == \E i \in DOMAIN Pipeline : Pipeline[i].name = ch

\* Someone is playing the character, is about to, or has just stopped and
\* is not saved yet.
Busy(ch) == \/ \E d \in Conn : /\ name[d] = ch
                               /\ d \in players \/ pc[d] \in Loading
            \/ PendingSave(ch)

Bump(ch) == IF latest[ch] < MaxVersion THEN latest[ch] + 1 ELSE latest[ch]

\* Each task's own part of the state has its type.
ConnType ==
    /\ pc \in [Conn -> {"idle", "burst", "live", "logoutSend", "closed"}
                         \union Loading]
    /\ name \in [Conn -> Char \union {NoChar}]
    /\ save \in [Conn -> Row]

InboxType == inbox \in Seq(Command) /\ Len(inbox) <= InboxCap

StackType == stack \in Seq(Frame)

WorldType ==
    /\ players \subseteq Conn
    /\ state \in [Conn -> Row]
    /\ queued \in [Conn -> 0..PushCap]
    /\ receiving \subseteq Conn

DiskType ==
    /\ saves \in Seq(SaveRecord)
    /\ writing \in Seq(SaveRecord) /\ Len(writing) <= 1
    /\ db \in [Char -> Row]

MainType ==
    /\ alive \in BOOLEAN
    /\ server \in {"up", "stopping", "exited"}
    /\ faults \in 0..MaxFaults
    /\ crashes \in 0..MaxCrashes

GhostType ==
    /\ latest \in [Char -> 1..MaxVersion]
    /\ exclusive \in [Char -> BOOLEAN]
    /\ lossy \in [Char -> BOOLEAN]
    /\ records \in [Conn -> Nat]

\* Both bounded channels stay within their capacity, every row and record is
\* whole, and every command, frame and record is of a known kind.
TypeOK == /\ ConnType /\ InboxType /\ StackType /\ WorldType
          /\ DiskType /\ MainType /\ GhostType

Init ==
    /\ pc = [c \in Conn |-> "idle"]
    /\ name = [c \in Conn |-> NoChar]
    /\ save = [c \in Conn |-> Blank]
    /\ inbox = <<>>
    /\ stack = <<>>
    /\ players = {}
    /\ state = [c \in Conn |-> Blank]
    /\ queued = [c \in Conn |-> 0]
    /\ receiving = {}
    /\ alive = TRUE
    /\ saves = <<>>
    /\ writing = <<>>
    /\ db = [ch \in Char |-> Uniform(1)]
    /\ server = "up"
    /\ faults = 0 /\ crashes = 0
    /\ latest = [ch \in Char |-> 1]
    /\ exclusive = [ch \in Char |-> TRUE]
    /\ lossy = [ch \in Char |-> FALSE]
    /\ records = [c \in Conn |-> 0]

-----------------------------------------------------------------------------
(* The connection handler: handle_game                                     *)

\* The handshake failed: bad checksum, wrong challenge echo, wrong version.
Reject(c) ==
    /\ pc[c] = "idle"
    /\ pc' = [pc EXCEPT ![c] = "closed"]
    /\ UNCHANGED <<name, save, inbox, worldVars, receiving, alive, diskVars,
                   server, faults, crashes, ghostVars>>

\* load_player, first query.  Nothing stops a second connection from loading
\* a character that is still being played or saved.
LoadStats(c, ch) ==
    /\ pc[c] = "idle"
    /\ name' = [name EXCEPT ![c] = ch]
    /\ save' = [save EXCEPT ![c] = [Blank EXCEPT !.stats = db[ch].stats,
                                                 !.dead = db[ch].dead]]
    /\ pc' = [pc EXCEPT ![c] = "loadItems"]
    /\ exclusive' = [exclusive EXCEPT ![ch] = @ /\ ~Busy(ch)]
    /\ UNCHANGED <<inbox, worldVars, receiving, alive, diskVars, server,
                   faults, crashes, latest, lossy, records>>

\* load_player, the two queries for the items, taken as one: both tables are
\* written in one transaction.  With the row complete the handler makes the
\* push channel and is ready to send the Login command.
LoadItems(c) ==
    /\ pc[c] = "loadItems"
    /\ save' = [save EXCEPT ![c].items = db[name[c]].items]
    /\ pc' = [pc EXCEPT ![c] = "loginSend"]
    /\ receiving' = receiving \union {c}
    /\ UNCHANGED <<name, inbox, worldVars, alive, diskVars, server,
                   faults, crashes, ghostVars>>

\* One of the queries failed: `.ok().flatten()` turns the error into "no
\* save", and the character starts afresh.
LoadFault(c) ==
    /\ pc[c] = "loadItems"
    /\ faults < MaxFaults
    /\ faults' = faults + 1
    /\ save' = [save EXCEPT ![c] = Blank]
    /\ pc' = [pc EXCEPT ![c] = "loginSend"]
    /\ receiving' = receiving \union {c}
    /\ lossy' = [lossy EXCEPT ![name[c]] = TRUE]
    /\ UNCHANGED <<name, inbox, worldVars, alive, diskVars, server, crashes,
                   latest, exclusive, records>>

\* Mutant of SendLogin: the channel takes one command more than it holds.
SendLoginUnbounded(c) ==
    /\ pc[c] = "loginSend"
    /\ alive
    /\ Len(inbox) <= InboxCap
    /\ inbox' = Append(inbox, [op |-> "login", c |-> c])
    /\ pc' = [pc EXCEPT ![c] = "loginWait"]
    /\ UNCHANGED <<name, save, worldVars, receiving, alive, diskVars, server,
                   faults, crashes, ghostVars>>

\* WorldHandle::login: the command is sent when the channel has room.
SendLogin(c) ==
    /\ pc[c] = "loginSend"
    /\ alive
    /\ Len(inbox) < InboxCap
    /\ inbox' = Append(inbox, [op |-> "login", c |-> c])
    /\ pc' = [pc EXCEPT ![c] = "loginWait"]
    /\ UNCHANGED <<name, save, worldVars, receiving, alive, diskVars, server,
                   faults, crashes, ghostVars>>

\* The receiver of the push channel is dropped, with what it holds.
DropReceiver(c) ==
    /\ receiving' = receiving \ {c}
    /\ queued' = [queued EXCEPT ![c] = 0]

\* Mutant of LoginRefused: a dropped reply is not noticed.
LoginRefusedAtSend(c) ==
    /\ pc[c] = "loginSend"
    /\ ~alive
    /\ pc' = [pc EXCEPT ![c] = "closed"]
    /\ DropReceiver(c)
    /\ UNCHANGED <<name, save, inbox, players, state, stack, alive, diskVars, server,
                   faults, crashes, ghostVars>>

\* The actor is gone: send or the reply fails, "could not be loaded".
LoginRefused(c) ==
    /\ pc[c] \in {"loginSend", "loginWait"}
    /\ ~alive
    /\ pc' = [pc EXCEPT ![c] = "closed"]
    /\ DropReceiver(c)
    /\ UNCHANGED <<name, save, inbox, players, state, stack, alive, diskVars, server,
                   faults, crashes, ghostVars>>

\* The enter-world burst is written and the writer task starts.
BurstSent(c) ==
    /\ pc[c] = "burst"
    /\ pc' = [pc EXCEPT ![c] = "live"]
    /\ UNCHANGED <<name, save, inbox, worldVars, receiving, alive, diskVars,
                   server, faults, crashes, ghostVars>>

\* Writing the burst failed: `?` returns at once, with the player in the
\* world and no Logout sent.
BurstFailed(c) ==
    /\ pc[c] = "burst"
    /\ pc' = [pc EXCEPT ![c] = "closed"]
    /\ DropReceiver(c)
    /\ UNCHANGED <<name, save, inbox, players, state, stack, alive, diskVars, server,
                   faults, crashes, ghostVars>>

\* reader_loop: a packet of the client becomes a command for its player.
ClientCommand(c) ==
    /\ pc[c] = "live"
    /\ latest[name[c]] < MaxVersion
    /\ alive
    /\ Len(inbox) < InboxCap
    /\ inbox' = Append(inbox, [op |-> "play", c |-> c])
    /\ UNCHANGED <<connVars, worldVars, receiving, alive, diskVars, server,
                   faults, crashes, ghostVars>>

\* writer_loop: everything queued leaves as one frame.
WriterDrain(c) ==
    /\ pc[c] = "live"
    /\ queued[c] > 0
    /\ queued' = [queued EXCEPT ![c] = 0]
    /\ UNCHANGED <<connVars, inbox, players, state, stack, receiving, alive,
                   diskVars, server, faults, crashes, ghostVars>>

\* Reader or writer ends, whichever is first, and takes the other with it.
EndLoops(c) ==
    /\ pc[c] = "live"
    /\ pc' = [pc EXCEPT ![c] = "logoutSend"]
    /\ DropReceiver(c)
    /\ UNCHANGED <<name, save, inbox, players, state, stack, alive, diskVars, server,
                   faults, crashes, ghostVars>>

\* The client asked to log out, closed the socket, or the socket failed.
Disconnect(c) == EndLoops(c)

\* The world dropped its end of the push channel and the rest is written.
ChannelClosed(c) ==
    /\ c \notin players
    /\ queued[c] = 0
    /\ EndLoops(c)

\* WorldHandle::logout, after which the connection is closed.
SendLogout(c) ==
    /\ pc[c] = "logoutSend"
    /\ alive => Len(inbox) < InboxCap
    /\ inbox' = IF alive THEN Append(inbox, [op |-> "logout", c |-> c]) ELSE inbox
    /\ pc' = [pc EXCEPT ![c] = "closed"]
    /\ UNCHANGED <<name, save, worldVars, receiving, alive, diskVars, server,
                   faults, crashes, ghostVars>>

-----------------------------------------------------------------------------
(* The main task                                                           *)

\* Ctrl+C or SIGTERM: shutdown_and_save sends Shutdown and waits for its ack.
Signal ==
    /\ server = "up"
    /\ server' = "stopping"
    /\ UNCHANGED <<connVars, inbox, worldVars, receiving, alive, diskVars,
                   faults, crashes, ghostVars>>

SendShutdown ==
    /\ server = "stopping"
    /\ alive
    /\ ~ShutdownQueued
    /\ Len(inbox) < InboxCap
    /\ inbox' = Append(inbox, [op |-> "shutdown"])
    /\ UNCHANGED <<connVars, worldVars, receiving, alive, diskVars, server,
                   faults, crashes, ghostVars>>

-----------------------------------------------------------------------------
(* The actor: Game::handle and what it calls.  A handler's pushes are steps *)
(* of their own, because writers drain and handlers die while it runs; the  *)
(* next command waits until the stack is empty.                             *)

\* The next command, once the previous handler is done.
Receive(op) ==
    /\ stack = <<>>
    /\ inbox # <<>>
    /\ Head(inbox).op = op
    /\ inbox' = IF op = "shutdown" THEN <<>> ELSE Tail(inbox)

\* Game::login: insert the player and show it to whoever is near.  The reply
\* goes out when the handler is done.
HandleLogin ==
    /\ Receive("login")
    /\ LET c == Head(inbox).c IN
       \E S \in SUBSET players : \E s \in SetToSeqs(S) :
           /\ players' = players \union {c}
           /\ state' = [state EXCEPT ![c] = save[c]]
           /\ save' = [save EXCEPT ![c] = Blank]
           /\ stack' = Pushes(s) \o <<[do |-> "ack", c |-> c]>>
    /\ UNCHANGED <<pc, name, queued, receiving, alive, diskVars, server,
                   faults, crashes, ghostVars>>

\* Game::logout of a player that is present: out of the world, one save
\* record, then packets to each spectator, before what `rest` says.
Leave(c, rest) ==
    /\ players' = players \ {c}
    /\ saves' = Append(saves, [name |-> name[c], row |-> state[c]])
    /\ state' = [state EXCEPT ![c] = Blank]
    /\ records' = [records EXCEPT ![c] = @ + 1]
    /\ \E S \in SUBSET (players \ {c}) : \E s \in SetToSeqs(S) :
           stack' = Pushes(s) \o rest
    /\ UNCHANGED <<connVars, queued, receiving, alive, writing, db,
                   server, faults, crashes, latest, exclusive, lossy>>

\* Mutant of HandleLogout: a player that was reaped is saved again.
HandleLogoutAlways ==
    /\ Receive("logout")
    /\ Leave(Head(inbox).c, <<>>)

\* Command::Logout; a player the world has already removed is left alone.
HandleLogout ==
    /\ Receive("logout")
    /\ \/ /\ Head(inbox).c \in players
          /\ Leave(Head(inbox).c, <<>>)
       \/ /\ Head(inbox).c \notin players
          /\ UNCHANGED <<connVars, worldVars, receiving, alive, diskVars,
                         server, faults, crashes, ghostVars>>

\* Give player c the next version of its character.
Change(c, dead) ==
    LET v == Bump(name[c]) IN
    /\ state' = [state EXCEPT ![c] = [Uniform(v) EXCEPT !.dead = dead]]
    /\ latest' = [latest EXCEPT ![name[c]] = v]

\* A command of a player: it changes the player and is shown to it and to
\* spectators; a command that arrives after its player left does nothing.
HandlePlay ==
    /\ Receive("play")
    /\ LET c == Head(inbox).c IN
       \/ /\ c \in players
          /\ Change(c, FALSE)
          /\ \E S \in SUBSET players : \E s \in SetToSeqs(S) :
                stack' = Pushes(s)
          /\ UNCHANGED <<players, queued, exclusive, lossy, records>>
       \/ /\ c \notin players
          /\ UNCHANGED <<worldVars, ghostVars>>
    /\ UNCHANGED <<connVars, receiving, alive, diskVars, server, faults, crashes>>

\* Timers send ticks through the same channel, each its own task waiting for
\* room like any sender.  What a tick carries is a time, which nothing here
\* reads, so a tick is a step the idle actor may take between two commands.
Tick == alive /\ stack = <<>> /\ UNCHANGED inbox

\* on_day_night_tick: the light level moved, tell every player.
HandleLight ==
    /\ Tick
    /\ \E s \in SetToSeqs(players) : stack' = Pushes(s)
    /\ UNCHANGED <<connVars, players, state, queued, receiving, alive, diskVars,
                   server, faults, crashes, ghostVars>>

\* on_combat_tick, a blow that lands: apply_damage lowers the hit points, to
\* zero or not, and pushes the health bar to every spectator, the victim
\* among them.
HandleBlow ==
    /\ Tick
    /\ \E v \in players, dead \in BOOLEAN :
          /\ Change(v, dead)
          /\ \E S \in SUBSET (players \ {v}) : \E s \in SetToSeqs(S \union {v}) :
                stack' = Pushes(s) \o <<[do |-> "hurt", c |-> v]>>
    /\ UNCHANGED <<connVars, players, queued, receiving, alive, diskVars, server,
                   faults, crashes, exclusive, lossy, records>>

\* Mutant of HandleShutdown: the players are saved and the actor goes on.
HandleShutdownGoesOn ==
    /\ Receive("shutdown")
    /\ \E s \in SetToSeqs(players) :
          saves' = saves \o [i \in 1..Len(s) |->
                                [name |-> name[s[i]], row |-> state[s[i]]]]
    /\ records' = [c \in Conn |-> IF c \in players THEN records[c] + 1 ELSE records[c]]
    /\ players' = {}
    /\ state' = [c \in Conn |-> Blank]
    /\ UNCHANGED <<connVars, queued, stack, receiving, alive, writing, db, server,
                   faults, crashes, latest, exclusive, lossy>>

\* Command::Shutdown: a record of every player, in the map's order, and the
\* actor stops: commands, players and both channels' senders are dropped.
HandleShutdown ==
    /\ Receive("shutdown")
    /\ \E s \in SetToSeqs(players) :
          saves' = saves \o [i \in 1..Len(s) |->
                                [name |-> name[s[i]], row |-> state[s[i]]]]
    /\ records' = [c \in Conn |-> IF c \in players THEN records[c] + 1 ELSE records[c]]
    /\ players' = {}
    /\ state' = [c \in Conn |-> Blank]
    /\ alive' = FALSE
    /\ UNCHANGED <<connVars, queued, stack, receiving, writing, db, server,
                   faults, crashes, latest, exclusive, lossy>>

-----------------------------------------------------------------------------
(* The rest of a running handler                                           *)

Top(do) == /\ stack # <<>>
           /\ Head(stack).do = do

Pop == stack' = Tail(stack)

\* Game::push: try_send into the session's channel.
PushSent ==
    /\ Top("push")
    /\ LET c == Head(stack).c IN
       /\ c \in players
       /\ c \in receiving
       /\ queued[c] < PushCap
       /\ queued' = [queued EXCEPT ![c] = @ + 1]
    /\ Pop
    /\ UNCHANGED <<connVars, inbox, players, state, receiving, alive, diskVars,
                   server, faults, crashes, ghostVars>>

\* Mutant of PushSkipped: a closed channel is no reason to log the player out.
PushIgnored ==
    /\ Top("push")
    /\ Head(stack).c \notin players \intersect receiving
    /\ Pop
    /\ UNCHANGED <<connVars, inbox, players, state, queued, receiving, alive,
                   diskVars, server, faults, crashes, ghostVars>>

\* The player has left since its spectator list was made.
PushSkipped ==
    /\ Top("push")
    /\ Head(stack).c \notin players
    /\ Pop
    /\ UNCHANGED <<connVars, inbox, players, state, queued, receiving, alive,
                   diskVars, server, faults, crashes, ghostVars>>

\* Mutant of Reap: the player is removed without a record.
ReapUnsaved ==
    /\ Top("push")
    /\ LET c == Head(stack).c IN
       /\ c \in players
       /\ c \notin receiving \/ queued[c] = PushCap
       /\ players' = players \ {c}
       /\ state' = [state EXCEPT ![c] = Blank]
    /\ Pop
    /\ UNCHANGED <<connVars, inbox, queued, receiving, alive, diskVars, server,
                   faults, crashes, ghostVars>>

\* The channel is full or its receiver is gone: the player is reaped, inside
\* the handler that was pushing.
Reap ==
    /\ Top("push")
    /\ LET c == Head(stack).c IN
       /\ c \in players
       /\ c \notin receiving \/ queued[c] = PushCap
       /\ Leave(c, Tail(stack))
    /\ UNCHANGED inbox

\* The Login handler is done and its reply reaches the connection.
Ack ==
    /\ Top("ack")
    /\ pc' = [pc EXCEPT ![Head(stack).c] = "burst"]
    /\ Pop
    /\ UNCHANGED <<name, save, inbox, players, state, queued, receiving, alive,
                   diskVars, server, faults, crashes, ghostVars>>

\* apply_damage after the health bars: a victim reaped by its own is gone and
\* the blow ends there; else it gets its stats, everyone the effects, and
\* with no hit points left it dies.
Hurt ==
    /\ Top("hurt")
    /\ LET v == Head(stack).c IN
       \/ /\ v \notin players
          /\ Pop
       \/ /\ v \in players
          /\ \E S \in SUBSET (players \ {v}) : \E s \in SetToSeqs(S \union {v}) :
                stack' = <<Push(v)>> \o Pushes(s) \o
                         (IF state[v].dead THEN <<[do |-> "die", c |-> v]>>
                                           ELSE <<>>)
    /\ UNCHANGED <<connVars, inbox, players, state, queued, receiving, alive,
                   diskVars, server, faults, crashes, ghostVars>>

\* do_death: the death window is tried without reaping, then the spectators
\* are told to remove the victim.
Die ==
    /\ Top("die")
    /\ LET v == Head(stack).c IN
       \/ /\ v \notin players
          /\ Pop
          /\ UNCHANGED queued
       \/ /\ v \in players
          /\ queued' = IF v \in receiving /\ queued[v] < PushCap
                       THEN [queued EXCEPT ![v] = @ + 1] ELSE queued
          /\ \E S \in SUBSET (players \ {v}) : \E s \in SetToSeqs(S) :
                stack' = Pushes(s) \o <<[do |-> "bury", c |-> v]>>
    /\ UNCHANGED <<connVars, inbox, players, state, receiving, alive, diskVars,
                   server, faults, crashes, ghostVars>>

\* Mutant of Bury: a victim reaped while it dies is saved a second time.
BuryAlways ==
    /\ Top("bury")
    /\ Pop
    /\ LET v == Head(stack).c  n == Bump(name[v]) IN
       /\ players' = players \ {v}
       /\ state' = [state EXCEPT ![v] = Blank]
       /\ saves' = Append(saves, [name |-> name[v], row |-> Uniform(n)])
       /\ latest' = [latest EXCEPT ![name[v]] = n]
       /\ records' = [records EXCEPT ![v] = @ + 1]
    /\ UNCHANGED <<connVars, inbox, queued, receiving, alive, writing, db,
                   server, faults, crashes, exclusive, lossy>>

\* The end of do_death: out of the world, saved at the temple in full health.
Bury ==
    /\ Top("bury")
    /\ Pop
    /\ LET v == Head(stack).c  n == Bump(name[v]) IN
       \/ /\ v \notin players
          /\ UNCHANGED <<players, state, saves, latest, records>>
       \/ /\ v \in players
          /\ players' = players \ {v}
          /\ state' = [state EXCEPT ![v] = Blank]
          /\ saves' = Append(saves, [name |-> name[v], row |-> Uniform(n)])
          /\ latest' = [latest EXCEPT ![name[v]] = n]
          /\ records' = [records EXCEPT ![v] = @ + 1]
    /\ UNCHANGED <<connVars, inbox, queued, receiving, alive, writing, db,
                   server, faults, crashes, exclusive, lossy>>

-----------------------------------------------------------------------------
(* The save worker: save_player                                            *)

\* The UPDATE of the stats columns commits on its own.
SaveStats ==
    /\ writing = <<>>
    /\ saves # <<>>
    /\ LET r == Head(saves) IN
       /\ db' = [db EXCEPT ![r.name].stats = r.row.stats, ![r.name].dead = r.row.dead]
       /\ writing' = <<r>>
    /\ saves' = Tail(saves)
    /\ UNCHANGED <<connVars, inbox, worldVars, receiving, alive, server, faults,
                   crashes, ghostVars>>

\* Inventory and container rows are replaced in one transaction.
SaveItems ==
    /\ writing # <<>>
    /\ LET r == Head(writing) IN
       db' = [db EXCEPT ![r.name].items = r.row.items]
    /\ writing' = <<>>
    /\ UNCHANGED <<connVars, inbox, worldVars, receiving, alive, saves, server,
                   faults, crashes, ghostVars>>

\* Either step fails; the worker ignores the error and goes on.
SaveFault ==
    /\ faults < MaxFaults
    /\ Pipeline # <<>>
    /\ faults' = faults + 1
    /\ lossy' = [lossy EXCEPT ![Head(Pipeline).name] = TRUE]
    /\ writing' = <<>>
    /\ saves' = IF writing = <<>> THEN Tail(saves) ELSE saves
    /\ UNCHANGED <<connVars, inbox, worldVars, receiving, alive, db, server,
                   crashes, latest, exclusive, records>>

\* Mutant of Exit: main does not wait for the save worker.
ExitUndrained ==
    /\ server = "stopping"
    /\ ~alive
    /\ server' = "exited"
    /\ UNCHANGED <<connVars, inbox, worldVars, receiving, alive, diskVars,
                   faults, crashes, ghostVars>>

\* main: the save task ends when the actor is gone and the channel is empty.
Exit ==
    /\ server = "stopping"
    /\ ~alive
    /\ Pipeline = <<>>
    /\ server' = "exited"
    /\ UNCHANGED <<connVars, inbox, worldVars, receiving, alive, diskVars,
                   faults, crashes, ghostVars>>

\* The process is killed and started again: only the database survives.
Crash ==
    /\ crashes < MaxCrashes
    /\ crashes' = crashes + 1
    /\ lossy' = [ch \in Char |-> \/ lossy[ch] \/ PendingSave(ch)
                                 \/ \E c \in players : name[c] = ch]
    /\ pc' = [c \in Conn |-> IF pc[c] = "idle" THEN "idle" ELSE "closed"]
    /\ inbox' = <<>> /\ stack' = <<>>
    /\ players' = {} /\ receiving' = {}
    /\ save' = [c \in Conn |-> Blank] /\ state' = [c \in Conn |-> Blank]
    /\ queued' = [c \in Conn |-> 0]
    /\ saves' = <<>> /\ writing' = <<>>
    /\ alive' = TRUE /\ server' = "up"
    /\ UNCHANGED <<name, db, faults, latest, exclusive, records>>

-----------------------------------------------------------------------------

\* The process has exited: nothing happens any more.
Exited == server = "exited" /\ UNCHANGED vars

\* What a connection handler does by itself, and its sends to the actor.
HandlerStep(c) ==
    \/ LoadItems(c)
    \/ LoginRefused(c)
    \/ BurstSent(c) \/ BurstFailed(c)
    \/ ChannelClosed(c)

HandlerSend(c) == SendLogin(c) \/ SendLogout(c)

\* What clients, networks and databases do to it at any time, or never.
Outside(c) ==
    \/ Reject(c)
    \/ \E ch \in Char : LoadStats(c, ch)
    \/ LoadFault(c)
    \/ ClientCommand(c)
    \/ WriterDrain(c)
    \/ Disconnect(c)

HandleCommand == HandleLogin \/ HandleLogout \/ HandlePlay \/ HandleShutdown

Actor ==
    \/ HandleCommand \/ HandleLight \/ HandleBlow
    \/ PushSent \/ PushSkipped \/ Reap \/ Ack \/ Hurt \/ Die \/ Bury

Worker == SaveStats \/ SaveItems \/ SaveFault

Main == Signal \/ SendShutdown \/ Exit

Step ==
    \/ \E c \in Conn : HandlerStep(c) \/ HandlerSend(c) \/ Outside(c)
    \/ Actor
    \/ Worker
    \/ Main
    \/ Crash

Next == \/ server # "exited" /\ Step
        \/ Exited

Spec == Init /\ [][Next]_vars

\* Fairness.  The tokio runtime polls every ready task, so each step a task
\* can always take is taken (WF).  A bounded channel serves waiting senders in
\* the order they came, so a sender that finds room again and again gets it,
\* and commands and ticks leave it in order, so none is overtaken for ever
\* (SF).  The timers never stop.  Nothing is assumed of the clients: they need
\* not connect, talk, drain their packets or leave.
Fairness ==
    /\ WF_vars(Actor)
    /\ SF_vars(HandleCommand)
    /\ SF_vars(HandleLight)
    /\ WF_vars(SaveStats \/ SaveItems)
    /\ WF_vars(Exit)
    /\ SF_vars(SendShutdown)
    /\ \A c \in Conn : WF_vars(HandlerStep(c)) /\ SF_vars(HandlerSend(c))

FairSpec == Spec /\ Fairness

-----------------------------------------------------------------------------
(* Properties                                                              *)

\* A connection whose player is gone: logged in once, no longer present.
Departed(c) == /\ pc[c] \in {"burst", "live", "logoutSend"}
               /\ c \notin players

\* A player leaves the world by logout, by a failed push, by death or by the
\* shutdown, and these race: a reaped player's handler still sends its own
\* Logout, a victim may be reaped while it dies.  Whatever the order, a
\* departure saves the character exactly once and nothing saves it before.
OneRecordPerDeparture ==
    \A c \in Conn :
        /\ c \in players => records[c] = 0
        /\ Departed(c) => records[c] = 1
        /\ records[c] <= 1

AtVersion(row, v) == row.stats = v /\ row.items = v

Playing(ch) == \E c \in players : name[c] = ch

\* What the project can promise about: a character that was at rest whenever
\* it was loaded, and that no database error or crash has touched.
Undisturbed(ch) == exclusive[ch] /\ ~lossy[ch]

\* The world has still to put the player of c in, with the row its handler read.
LoggingIn(c) ==
    \/ pc[c] = "loginSend"
    \/ \E i \in DOMAIN inbox : inbox[i].op = "login" /\ inbox[i].c = c

\* No progress is lost between the world and the disk.  The newest version of
\* an undisturbed character is in the world while it is played, on its way
\* to the database when it has left, and in both parts of its row after
\* that; a handler never logs it in with an older or a mixed row.
ProgressKept ==
    \A ch \in Char : Undisturbed(ch) =>
        /\ \A c \in players : name[c] = ch => AtVersion(state[c], latest[ch])
        /\ \A i \in DOMAIN Pipeline :
              Pipeline[i].name = ch => AtVersion(Pipeline[i].row, latest[ch])
        /\ \A c \in Conn :
              name[c] = ch /\ LoggingIn(c) => AtVersion(save[c], latest[ch])
        /\ ~Playing(ch) /\ ~PendingSave(ch) => AtVersion(db[ch], latest[ch])

\* When the process has exited after a signal, every undisturbed character
\* is on disk as it last was in the world, with players still online, reaped
\* or half logged in at the time of the signal.
ShutdownLosesNothing ==
    server = "exited" =>
        \A ch \in Char : Undisturbed(ch) => AtVersion(db[ch], latest[ch])

\* A player whose connection is closed is removed from the world, though
\* after a failed burst no Logout is ever sent for it: the next light change
\* finds the channel closed.
ClosedPlayersLeave ==
    \A c \in Conn : (pc[c] = "closed" /\ c \in players) ~> c \notin players

\* Every connection that asks to log in is answered, by the world or because
\* the world has stopped.
LoginsAnswered ==
    \A c \in Conn : pc[c] = "loginSend" ~> pc[c] \notin Loading

\* A shutdown request is always served: the process exits, or is killed.
ShutdownCompletes == server = "stopping" ~> server \in {"exited", "up"}

\* The design of the inventory tables: they are replaced inside the existing
\* save transaction, so no reader sees a row whose parts are of two saves.
RowsMoveTogether ==
    \A ch \in Char : db[ch].stats = db[ch].items

\* The design of death: the record of a player whose hit points ran out is
\* that of the temple with full health, never that of the death tile.
NobodySavedDead ==
    \A i \in DOMAIN saves : ~saves[i].row.dead

\* The design of presence: a session whose channel overflowed is kicked.
SlowClientKicked ==
    \A c \in Conn : (pc[c] = "live" /\ c \notin players) ~> pc[c] = "closed"
=============================================================================
