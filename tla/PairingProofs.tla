---------------------------- MODULE PairingProofs ----------------------------
(***************************************************************************)
(* Proofs about Pairing, for every set of machines, names and commands.    *)
(***************************************************************************)
EXTENDS PairingProperties, TLAPS

-----------------------------------------------------------------------------
(* What the parts of a step do *)

Side == {"host", "guest"}
HostSteps  == {"idle", "waiting", "open", "told", "saved"} \cup Report
GuestSteps == {"idle", "open", "checked", "saved"} \cup Report

\* What Go does to a connection.
Moved(l, side, step, message) ==
  /\ waiter' = waiter
  /\ \A k \in Listen : k # l => link'[k] = link[k] /\ sent'[k] = sent[k]
  /\ sent'[l] = sent[l] \cup message
  /\ link'[l].host = IF side = "host" THEN step ELSE link[l].host
  /\ link'[l].guest = IF side = "guest" THEN step ELSE link[l].guest
  /\ link'[l].who = link[l].who
  /\ link'[l].hostName = link[l].hostName
  /\ link'[l].guestName = link[l].guestName
  /\ \A c \in Join : c # link[l].who => command'[c] = command[c]
  /\ IF side = "guest" /\ step \in Report
     THEN command'[link[l].who].step = IF step = "plain" THEN "dialling" ELSE step
     ELSE command' = command

\* One side of a handshake goes on: its own step, what has left on the
\* connection, and at the end of an attempt the command.
LEMMA GoEffect ==
  ASSUME PairTypes, NEW l \in Listen, link[l].who \in Join,
         NEW side \in Side, NEW step,
         step \in IF side = "host" THEN HostSteps ELSE GuestSteps,
         NEW message \in SUBSET Message, Go(l, side, step, message)
  PROVE  /\ link' \in [Listen -> Link]
         /\ sent' \in [Listen -> SUBSET Message]
         /\ command' \in [Join -> Command]
         /\ Moved(l, side, step, message)
  <1>1. /\ link[l] \in Link
        /\ link \in [Listen -> Link]
        /\ sent \in [Listen -> SUBSET Message]
        /\ command \in [Join -> Command]
    BY DEF PairTypes
  <1>2. /\ sent' = [sent EXCEPT ![l] = sent[l] \cup message]
        /\ waiter' = waiter
    BY DEF Go
  <1>3. /\ command' \in [Join -> Command]
        /\ \A c \in Join : c # link[l].who => command'[c] = command[c]
        /\ IF side = "guest" /\ step \in Report
           THEN command'[link[l].who].step = IF step = "plain" THEN "dialling" ELSE step
           ELSE command' = command
    <2>1. CASE side = "guest" /\ step \in Report
      <3>1. command' = [command EXCEPT ![link[l].who].step =
                          IF step = "plain" THEN "dialling" ELSE step]
        BY <2>1 DEF Go, Ends
      <3>2. QED
        BY <1>1, <2>1, <3>1 DEF Command, Report
    <2>2. CASE ~(side = "guest" /\ step \in Report)
      BY <1>1, <2>2 DEF Go
    <2>3. QED
      BY <2>1, <2>2
  <1>4. CASE side = "host"
    <2>1. link' = [link EXCEPT ![l].host = step]
      BY <1>4 DEF Go
    <2>2. QED
      BY <1>1, <1>2, <1>3, <1>4, <2>1 DEF Link, HostSteps, Moved
  <1>5. CASE side = "guest"
    <2>1. link' = [link EXCEPT ![l].guest = step]
      BY <1>5 DEF Go
    <2>2. QED
      BY <1>1, <1>2, <1>3, <1>5, <2>1 DEF Link, GuestSteps, Moved
  <1>6. QED
    BY <1>4, <1>5 DEF Side

\* A save leaves both copies well typed.
LEMMA SaveTypes ==
  ASSUME PairTypes, NEW m \in Machine, NEW next \in Trust,
         Saved(m, next) \/ SaveFailed(m, next)
  PROVE  /\ mem' \in [Machine -> Trust]
         /\ disk' \in [Machine -> Trust]
         /\ stuck' \in [Machine -> BOOLEAN]
         /\ faults' \in Nat
  <1>1. CASE Saved(m, next)
    BY <1>1, Zenon DEF PairTypes, Saved
  <1>2. CASE SaveFailed(m, next)
    <2>1. faults' \in Nat
      BY <1>2 DEF PairTypes, SaveFailed
    <2>2. disk' \in [Machine -> Trust]
      BY <1>2 DEF PairTypes, SaveFailed
    <2>3. QED
      BY <1>2, <2>1, <2>2, Zenon DEF PairTypes, SaveFailed
  <1>3. QED
    BY <1>1, <1>2

LEMMA RenamedType ==
  ASSUME PairTypes, NEW m \in Machine, NEW n \in Name \cup {NoName}
  PROVE  Renamed(m, n) \in Trust
  <1>1. mem[m] \in Trust
    BY DEF PairTypes
  <1>2. QED
    BY <1>1 DEF Renamed, Trust

LEMMA WithType ==
  ASSUME NEW s \in Trust, NEW p \in Peer
  PROVE  With(s, p) \in Trust
  BY DEF With, Trust

\* The identities of a connection are peers.
LEMMA PeerTypes ==
  ASSUME PairTypes, NEW l \in Listen, link[l].who \in Join
  PROVE  /\ HostPeer(l) \in Peer /\ GuestPeer(l) \in Peer
         /\ Host[l] \in Machine /\ Guest[link[l].who] \in Machine
  <1>1. link[l] \in Link
    BY DEF PairTypes
  <1>2. QED
    BY <1>1, PairingShape DEF HostPeer, GuestPeer, Peer, Link


-----------------------------------------------------------------------------
(* Types *)

\* A handshake step keeps the types whatever it does to the stores.
LEMMA GoTypes ==
  ASSUME PairTypeOK, NEW l \in Listen, link[l].who \in Join,
         NEW side \in Side, NEW step,
         side = "guest" \/ link[l].host # "waiting",
         step \in IF side = "host" THEN HostSteps ELSE GuestSteps,
         NEW message \in SUBSET Message, Go(l, side, step, message),
         mem' \in [Machine -> Trust], disk' \in [Machine -> Trust],
         stuck' \in [Machine -> BOOLEAN], faults' \in Nat,
         \/ wrote' = wrote
         \/ wrote' = [wrote EXCEPT ![l] = @ \cup {side}]
  PROVE  PairTypeOK'
  <1>1. PairTypes
    BY DEF PairTypeOK
  <1>2. /\ link' \in [Listen -> Link]
        /\ sent' \in [Listen -> SUBSET Message]
        /\ command' \in [Join -> Command]
        /\ waiter' = waiter
        /\ \A k \in Listen : k # l => link'[k] = link[k] /\ sent'[k] = sent[k]
        /\ link'[l].host = IF side = "host" THEN step ELSE link[l].host
        /\ link'[l].who = link[l].who
    BY <1>1, GoEffect DEF Moved
  <1>3. /\ wrote' \in [Listen -> SUBSET {"host", "guest"}]
        /\ \A k \in Listen : k # l => wrote'[k] = wrote[k]
    <2>1. wrote \in [Listen -> SUBSET {"host", "guest"}]
      BY <1>1 DEF PairTypes
    <2>2. QED
      BY <2>1 DEF Side
  <1>4. PairTypes'
    BY <1>1, <1>2, <1>3 DEF PairTypes
  <1>5. ASSUME NEW m \in Machine, waiter'[m] # NoListen
        PROVE  Host[waiter'[m]] = m /\ link'[waiter'[m]].host = "waiting"
    <2>1. /\ waiter[m] \in Listen
          /\ Host[waiter[m]] = m
          /\ link[waiter[m]].host = "waiting"
      BY <1>1, <1>2, <1>5 DEF PairTypeOK, PairTypes
    <2>2. waiter[m] # l \/ side = "guest"
      BY <2>1
    <2>3. QED
      BY <1>2, <2>1, <2>2
  <1>6. ASSUME NEW k \in Listen, link'[k].who = NoJoin
        PROVE  /\ link'[k].host \in {"idle", "waiting", "plain", "gone"}
               /\ link'[k].guest = "idle"
               /\ sent'[k] = {}
               /\ wrote'[k] = {}
    <2>1. k # l
      BY <1>2, <1>6, PairingShape
    <2>2. QED
      BY <1>2, <1>3, <1>6, <2>1 DEF PairTypeOK
  <1>7. QED
    BY <1>4, <1>5, <1>6 DEF PairTypeOK

\* The stores are well typed after a step that leaves them alone.
LEMMA StillTyped ==
  ASSUME PairTypes, UNCHANGED storeVars
  PROVE  /\ mem' \in [Machine -> Trust] /\ disk' \in [Machine -> Trust]
         /\ stuck' \in [Machine -> BOOLEAN] /\ faults' \in Nat
  BY DEF PairTypes, storeVars

\* A connection that has come past waiting has a joiner.
LEMMA Joined ==
  ASSUME PairTypeOK, NEW l \in Listen,
         \/ link[l].host \in {"open", "told", "saved"}
         \/ link[l].guest \in {"open", "checked", "saved"}
  PROVE  link[l].who \in Join
  <1>1. link[l] \in Link
    BY DEF PairTypeOK, PairTypes
  <1>2. QED
    BY <1>1 DEF PairTypeOK, Link

\* persist_peer keeps the types.
LEMMA PersistTypes ==
  ASSUME PairTypeOK, NEW l \in Listen, link[l].who \in Join,
         NEW side \in Side, side = "guest" \/ link[l].host # "waiting",
         NEW m \in Machine, NEW name, NEW peer \in Peer,
         Persist(m, name, peer, l, side)
  PROVE  PairTypeOK'
  <1>1. PairTypes /\ mem[m] \in Trust
    BY DEF PairTypeOK, PairTypes
  <1>2. ASSUME NEW step \in {"remote", "plain", "maybe"}, Go(l, side, step, {}),
               side = "host" \/ step # "remote", UNCHANGED <<storeVars, wrote>>
        PROVE  PairTypeOK'
    <2>1. step \in IF side = "host" THEN HostSteps ELSE GuestSteps
      BY DEF HostSteps, GuestSteps, Report
    <2>2. QED
      BY <1>1, <1>2, <2>1, StillTyped, GoTypes
  <1>3. ASSUME Saved(m, With(mem[m], peer)) \/ SaveFailed(m, With(mem[m], peer)),
               NEW step \in {"saved", "maybe"}, NEW message \in SUBSET {"join-committed"},
               Go(l, side, step, message),
               \/ wrote' = wrote
               \/ wrote' = [wrote EXCEPT ![l] = @ \cup {side}]
        PROVE  PairTypeOK'
    <2>1. step \in IF side = "host" THEN HostSteps ELSE GuestSteps
      BY DEF HostSteps, GuestSteps, Report
    <2>2. message \in SUBSET Message
      BY DEF Message
    <2>3. With(mem[m], peer) \in Trust
      BY <1>1, WithType
    <2>4. /\ mem' \in [Machine -> Trust] /\ disk' \in [Machine -> Trust]
          /\ stuck' \in [Machine -> BOOLEAN] /\ faults' \in Nat
      BY <1>1, <1>3, <2>3, SaveTypes
    <2>5. QED
      BY <1>3, <2>1, <2>2, <2>4, GoTypes
  <1>4. CASE ~Same(m, name) \/ stuck[m] \/ ~Acceptable(m, peer)
    <2>1. \E step \in {"remote", "plain", "maybe"} :
            /\ Go(l, side, step, {})
            /\ side = "host" \/ step # "remote"
            /\ UNCHANGED <<storeVars, wrote>>
      BY <1>4 DEF Persist, Saved, SaveFailed, storeVars
    <2>2. QED
      BY <1>2, <2>1
  <1>5. CASE Same(m, name) /\ ~stuck[m] /\ Acceptable(m, peer)
    <2>1. CASE Saved(m, With(mem[m], peer))
               /\ Go(l, side, "saved", IF side = "guest" THEN {"join-committed"} ELSE {})
               /\ wrote' = [wrote EXCEPT ![l] = @ \cup {side}]
      BY <1>3, <2>1
    <2>2. CASE SaveFailed(m, With(mem[m], peer)) /\ Go(l, side, "maybe", {})
               /\ (wrote' = wrote \/ wrote' = [wrote EXCEPT ![l] = @ \cup {side}])
      BY <1>3, <2>2
    <2>3. QED
      BY <1>5, <2>1, <2>2 DEF Persist
  <1>6. QED
    BY <1>4, <1>5

LEMMA HandshakeTypes ==
  ASSUME PairTypeOK, NEW l \in Listen,
         \/ HostReply(l) \/ HostSave(l) \/ HostAck(l) \/ HostFail(l)
         \/ GuestCheck(l) \/ GuestSave(l) \/ GuestDone(l) \/ GuestFail(l)
  PROVE  PairTypeOK'
  <1>1. PairTypes
    BY DEF PairTypeOK
  <1>2. link[l].who \in Join
    BY Joined DEF HostReply, HostSave, HostAck, HostFail, GuestCheck, GuestSave, GuestDone, GuestFail
  <1>3. /\ HostPeer(l) \in Peer /\ GuestPeer(l) \in Peer
        /\ Host[l] \in Machine /\ Guest[link[l].who] \in Machine
    BY <1>1, <1>2, PeerTypes
  <1>4. CASE HostSave(l)
    BY <1>2, <1>3, <1>4, PersistTypes DEF HostSave, Side
  <1>5. CASE GuestSave(l)
    BY <1>2, <1>3, <1>5, PersistTypes DEF GuestSave, Side
  <1>6. ASSUME NEW side \in Side, side = "guest" \/ link[l].host # "waiting",
               NEW step \in IF side = "host" THEN HostSteps ELSE GuestSteps,
               NEW message \in SUBSET Message, Go(l, side, step, message),
               UNCHANGED <<storeVars, wrote>>
        PROVE  PairTypeOK'
    BY <1>1, <1>2, <1>6, StillTyped, GoTypes
  <1>7. CASE HostReply(l)
    BY <1>6, <1>7 DEF HostReply, Side, HostSteps, Report, Message
  <1>8. CASE HostAck(l)
    BY <1>6, <1>8 DEF HostAck, Side, HostSteps, Report, Message
  <1>9. CASE HostFail(l)
    BY <1>6, <1>9 DEF HostFail, Side, HostSteps, Report, Message
  <1>10. CASE GuestCheck(l)
    BY <1>6, <1>10 DEF GuestCheck, Side, GuestSteps, Report
  <1>11. CASE GuestDone(l)
    BY <1>6, <1>11 DEF GuestDone, Side, GuestSteps, Report
  <1>12. CASE GuestFail(l)
    BY <1>6, <1>12 DEF GuestFail, Side, GuestSteps, Report
  <1>13. QED
    BY <1>4, <1>5, <1>7, <1>8, <1>9, <1>10, <1>11, <1>12

LEMMA StartTypes ==
  ASSUME PairTypeOK, NEW l \in Listen, PairStart(l)
  PROVE  PairTypeOK'
  <1> DEFINE m == Host[l]
             next == Renamed(m, Called[l])
  <1>1. PairTypes
    BY DEF PairTypeOK
  <1>2. m \in Machine /\ next \in Trust
    BY <1>1, RenamedType, PairingShape
  <1>3. UNCHANGED <<sent, command, wrote>>
    BY DEF PairStart
  <1>4. CASE SaveFailed(m, next) /\ UNCHANGED <<waiter, link>>
    <2>1. /\ mem' \in [Machine -> Trust] /\ disk' \in [Machine -> Trust]
          /\ stuck' \in [Machine -> BOOLEAN] /\ faults' \in Nat
      BY <1>1, <1>2, <1>4, SaveTypes
    <2>2. QED
      BY <1>3, <1>4, <2>1 DEF PairTypeOK, PairTypes
  <1>5. CASE /\ Saved(m, next)
             /\ waiter' = [waiter EXCEPT ![m] = l]
             /\ link' = [k \in Listen |->
                   IF k = l THEN [link[k] EXCEPT !.host = "waiting"]
                   ELSE IF k = waiter[m] THEN [link[k] EXCEPT !.host = "plain"]
                   ELSE link[k]]
    <2>1. /\ mem' \in [Machine -> Trust] /\ disk' \in [Machine -> Trust]
          /\ stuck' \in [Machine -> BOOLEAN] /\ faults' \in Nat
      BY <1>1, <1>2, <1>5, SaveTypes
    <2>2. waiter' \in [Machine -> Listen \cup {NoListen}]
      BY <1>1, <1>5 DEF PairTypes
    <2>3. ASSUME NEW k \in Listen
          PROVE  /\ link'[k] \in Link
                 /\ link'[k].who = link[k].who
                 /\ link'[k].guest = link[k].guest
                 /\ link'[k].host = IF k = l THEN "waiting"
                                    ELSE IF k = waiter[m] THEN "plain" ELSE link[k].host
      <3>1. link[k] \in Link
        BY <1>1 DEF PairTypes
      <3>2. QED
        BY <1>5, <3>1 DEF Link, Report
    <2>4. link' \in [Listen -> Link]
      <3>1. link' = [k \in Listen |-> link'[k]]
        BY <1>5
      <3>2. QED
        BY <2>3, <3>1
    <2>5. PairTypes'
      BY <1>1, <1>3, <2>1, <2>2, <2>4 DEF PairTypes
    <2>6. ASSUME NEW n \in Machine, waiter'[n] # NoListen
          PROVE  Host[waiter'[n]] = n /\ link'[waiter'[n]].host = "waiting"
      <3>1. CASE n = m
        BY <1>1, <1>2, <1>5, <2>3, <3>1 DEF PairTypes
      <3>2. CASE n # m
        <4>1. waiter'[n] = waiter[n]
          BY <1>1, <1>5, <3>2 DEF PairTypes
        <4>2. /\ waiter[n] \in Listen
              /\ Host[waiter[n]] = n
              /\ link[waiter[n]].host = "waiting"
          BY <1>1, <2>6, <4>1 DEF PairTypeOK, PairTypes
        <4>3. waiter[n] # waiter[m]
          <5>1. waiter[n] # NoListen
            BY <1>1, <4>2, PairingShape
          <5>2. QED
            BY <1>2, <3>2, <4>2, <5>1 DEF PairTypeOK
        <4>4. QED
          BY <2>3, <3>2, <4>1, <4>2, <4>3
      <3>3. QED
        BY <3>1, <3>2
    <2>7. ASSUME NEW k \in Listen, link'[k].who = NoJoin
          PROVE  /\ link'[k].host \in {"idle", "waiting", "plain", "gone"}
                 /\ link'[k].guest = "idle"
                 /\ sent'[k] = {}
                 /\ wrote'[k] = {}
      BY <1>3, <2>3, <2>7 DEF PairTypeOK
    <2>8. QED
      BY <2>5, <2>6, <2>7 DEF PairTypeOK
  <1>6. QED
    BY <1>4, <1>5 DEF PairStart

\* A connection: its listener waits no longer and has a joiner.
Dialled(c, m) ==
  LET l == waiter[m] IN
  /\ l \in Listen /\ Host[l] = m /\ m # Guest[c]
  /\ waiter' = [waiter EXCEPT ![m] = NoListen]
  /\ link' = [link EXCEPT ![l] =
        [host |-> "open", guest |-> "open", who |-> c,
         hostName |-> mem[m].name, guestName |-> mem[Guest[c]].name]]
  /\ sent' = [sent EXCEPT ![l] = {"join-identity"}]
  /\ mem[m].name \in Name /\ mem[Guest[c]].name \in Name
  /\ command[c].step = "dialling" /\ command'[c].step = "busy"
  /\ command' \in [Join -> Command]
  /\ \A d \in Join : d # c => command'[d] = command[d]

LEMMA DialEffect ==
  ASSUME PairTypes, NEW c \in Join, Dial(c),
         \A m \in Machine : waiter[m] # NoListen => Host[waiter[m]] = m
  PROVE  \E m \in Machine : Dialled(c, m)
  <1> DEFINE m == Head(command[c].left)
  <1>1. command[c] \in Command /\ command[c].left \in Seq(Machine)
    BY DEF PairTypes, Command
  <1>2. m \in Machine /\ Tail(command[c].left) \in Seq(Machine)
    BY <1>1 DEF Dial
  <1>3. waiter[m] \in Listen /\ Host[waiter[m]] = m
    BY <1>2 DEF PairTypes, Dial
  <1>4. Guest[c] \in Machine
    BY PairingShape
  <1>5. mem[m].name \in Name /\ mem[Guest[c]].name \in Name
    BY <1>2, <1>4 DEF PairTypes, Trust
  <1>6. command' = [command EXCEPT ![c] = [step |-> "busy", left |-> Tail(command[c].left)]]
    BY DEF Dial
  <1>7. [step |-> "busy", left |-> Tail(command[c].left)] \in Command
    BY <1>2 DEF Command
  <1>8. /\ command' \in [Join -> Command] /\ command'[c].step = "busy"
        /\ \A d \in Join : d # c => command'[d] = command[d]
    BY <1>6, <1>7 DEF PairTypes
  <1>9. QED
    BY <1>2, <1>3, <1>5, <1>8 DEF Dial, Dialled

LEMMA DialTypes ==
  ASSUME PairTypeOK, NEW c \in Join, Dial(c)
  PROVE  PairTypeOK'
  <1>1. PairTypes
    BY DEF PairTypeOK
  <1>2. PICK m \in Machine : Dialled(c, m)
    BY <1>1, DialEffect DEF PairTypeOK
  <1>3. UNCHANGED <<mem, disk, stuck, faults, wrote>>
    BY DEF Dial, storeVars
  <1> DEFINE l == waiter[m]
  <1>4. /\ link' \in [Listen -> Link]
        /\ link'[l].who = c
        /\ \A k \in Listen : k # l => link'[k] = link[k] /\ sent'[k] = sent[k]
    BY <1>1, <1>2 DEF PairTypes, Dialled, Link
  <1>5. sent' \in [Listen -> SUBSET Message]
    BY <1>1, <1>2 DEF PairTypes, Dialled, Message
  <1>6. waiter' \in [Machine -> Listen \cup {NoListen}]
    BY <1>1, <1>2 DEF PairTypes, Dialled
  <1>7. PairTypes'
    BY <1>1, <1>2, <1>3, <1>4, <1>5, <1>6 DEF PairTypes, Dialled
  <1>8. ASSUME NEW n \in Machine, waiter'[n] # NoListen
        PROVE  Host[waiter'[n]] = n /\ link'[waiter'[n]].host = "waiting"
    <2>1. n # m /\ waiter'[n] = waiter[n]
      BY <1>1, <1>2, <1>8 DEF PairTypes, Dialled
    <2>2. /\ waiter[n] \in Listen
          /\ Host[waiter[n]] = n
          /\ link[waiter[n]].host = "waiting"
      BY <1>1, <1>8, <2>1 DEF PairTypeOK, PairTypes
    <2>3. waiter[n] # l
      BY <1>2, <2>1, <2>2 DEF Dialled
    <2>4. QED
      BY <1>4, <2>1, <2>2, <2>3
  <1>9. ASSUME NEW k \in Listen, link'[k].who = NoJoin
        PROVE  /\ link'[k].host \in {"idle", "waiting", "plain", "gone"}
               /\ link'[k].guest = "idle"
               /\ sent'[k] = {}
               /\ wrote'[k] = {}
    <2>1. k # l
      BY <1>4, <1>9, PairingShape
    <2>2. QED
      BY <1>3, <1>4, <1>9, <2>1 DEF PairTypeOK
  <1>10. QED
    BY <1>7, <1>8, <1>9 DEF PairTypeOK

\* The other steps of a command change its loop and perhaps the store.
LEMMA CommandTypes ==
  ASSUME PairTypeOK, NEW c \in Join, PairJoin(c) \/ Skip(c) \/ GiveUp(c)
  PROVE  PairTypeOK'
  <1>1. PairTypes
    BY DEF PairTypeOK
  <1>2. command[c] \in Command
    BY <1>1 DEF PairTypes
  <1>3. UNCHANGED <<waiter, link, sent, wrote>>
    BY DEF PairJoin, Skip, GiveUp
  <1>4. command' \in [Join -> Command]
    <2>1. CASE PairJoin(c)
      <3>1. command' = command \/ command' = [command EXCEPT ![c].step = "dialling"]
        BY <2>1 DEF PairJoin
      <3>2. QED
        BY <1>1, <1>2, <3>1 DEF PairTypes, Command
    <2>2. CASE Skip(c)
      <3>1. Tail(command[c].left) \in Seq(Machine)
        BY <1>2, <2>2 DEF Skip, Command
      <3>2. command' = [command EXCEPT ![c].left = Tail(command[c].left)]
        BY <2>2 DEF Skip
      <3>3. QED
        BY <1>1, <1>2, <3>1, <3>2 DEF PairTypes, Command
    <2>3. CASE GiveUp(c)
      <3>1. command' = [command EXCEPT ![c].step = "plain"]
        BY <2>3 DEF GiveUp
      <3>2. QED
        BY <1>1, <1>2, <3>1 DEF PairTypes, Command, Report
    <2>4. QED
      BY <2>1, <2>2, <2>3
  <1>5. /\ mem' \in [Machine -> Trust] /\ disk' \in [Machine -> Trust]
        /\ stuck' \in [Machine -> BOOLEAN] /\ faults' \in Nat
    <2>1. CASE UNCHANGED storeVars
      BY <1>1, <2>1, StillTyped
    <2>2. CASE PairJoin(c)
      <3>1. Guest[c] \in Machine /\ Called[c] \in Name \cup {NoName}
        BY PairingShape
      <3>2. Renamed(Guest[c], Called[c]) \in Trust
        BY <1>1, <3>1, RenamedType
      <3>3. QED
        BY <1>1, <2>2, <3>1, <3>2, SaveTypes DEF PairJoin
    <2>3. QED
      BY <2>1, <2>2 DEF Skip, GiveUp
  <1>6. QED
    BY <1>1, <1>3, <1>4, <1>5 DEF PairTypeOK, PairTypes

\* The attempts of a machine end with its process.
LEMMA RebootLinks ==
  ASSUME PairTypes, NEW m \in Machine, Reboot(m), NEW l \in Listen
  PROVE  /\ link'[l] \in Link
         /\ link'[l].who = link[l].who
         /\ link'[l].hostName = link[l].hostName /\ link'[l].guestName = link[l].guestName
         /\ \/ link'[l].host = link[l].host
            \/ /\ Host[l] = m /\ link'[l].host = "gone"
               /\ link[l].host \in {"waiting", "open", "told", "saved"}
         /\ \/ link'[l].guest = link[l].guest
            \/ link[l].guest \in {"open", "checked", "saved"} /\ link'[l].guest = "gone"
         /\ link'[l].guest \in {"open", "checked", "saved"} => Guest[link[l].who] # m
  <1>1. link[l] \in Link
    BY DEF PairTypes
  <1>2. link'[l] = [link[l] EXCEPT
          !.host  = IF Host[l] = m /\ link[l].host \in {"waiting", "open", "told", "saved"}
                    THEN "gone" ELSE link[l].host,
          !.guest = IF link[l].guest \in {"open", "checked", "saved"} /\ Guest[link[l].who] = m
                    THEN "gone" ELSE link[l].guest]
    BY DEF Reboot
  <1>3. QED
    BY <1>1, <1>2 DEF Link, Report

LEMMA RebootTypes ==
  ASSUME PairTypeOK, NEW m \in Machine, Reboot(m)
  PROVE  PairTypeOK'
  <1>1. PairTypes
    BY DEF PairTypeOK
  <1>2. /\ mem' \in [Machine -> Trust] /\ stuck' \in [Machine -> BOOLEAN]
        /\ waiter' \in [Machine -> Listen \cup {NoListen}]
        /\ faults' \in Nat
        /\ UNCHANGED <<disk, sent, wrote>>
    <2>1. disk[m] \in Trust
      BY <1>1 DEF PairTypes
    <2>2. mem' \in [Machine -> Trust]
      BY <1>1, <2>1, Zenon DEF PairTypes, Reboot
    <2>3. stuck' \in [Machine -> BOOLEAN] /\ waiter' \in [Machine -> Listen \cup {NoListen}]
      <3>1. /\ stuck' = [stuck EXCEPT ![m] = FALSE]
            /\ waiter' = [waiter EXCEPT ![m] = NoListen]
        BY DEF Reboot
      <3>2. waiter' \in [Machine -> Listen \cup {NoListen}]
        BY <1>1, <3>1 DEF PairTypes
      <3>3. stuck' \in [Machine -> BOOLEAN]
        BY <1>1, <3>1, Zenon DEF PairTypes
      <3>4. QED
        BY <3>2, <3>3
    <2>4. faults' \in Nat /\ UNCHANGED <<disk, sent, wrote>>
      <3>1. faults' = faults + 1 /\ UNCHANGED <<disk, sent, wrote>>
        BY Zenon DEF Reboot
      <3>2. QED
        BY <1>1, <3>1 DEF PairTypes
    <2>5. QED
      BY <2>2, <2>3, <2>4
  <1>3. ASSUME NEW l \in Listen
        PROVE  /\ link'[l] \in Link
               /\ link'[l].who = link[l].who
               /\ \/ link'[l].host = link[l].host
                  \/ Host[l] = m /\ link'[l].host = "gone"
               /\ \/ link'[l].guest = link[l].guest
                  \/ link[l].guest # "idle" /\ link'[l].guest = "gone"
    BY <1>1, RebootLinks
  <1>4. link' \in [Listen -> Link]
    <2>1. link' = [l \in Listen |-> link'[l]]
      BY DEF Reboot
    <2>2. QED
      BY <1>3, <2>1
  <1>5. command' \in [Join -> Command]
    <2>1. ASSUME NEW c \in Join
          PROVE  command'[c] \in Command
      <3>1. command[c] \in Command
        BY <1>1 DEF PairTypes
      <3>2. command'[c] = command[c] \/ command'[c] = [command[c] EXCEPT !.step = "gone"]
        BY DEF Reboot
      <3>3. QED
        BY <3>1, <3>2 DEF Command, Report
    <2>2. command' = [c \in Join |-> command'[c]]
      BY DEF Reboot
    <2>3. QED
      BY <2>1, <2>2
  <1>6. ASSUME NEW n \in Machine, waiter'[n] # NoListen
        PROVE  Host[waiter'[n]] = n /\ link'[waiter'[n]].host = "waiting"
    <2>1. n # m /\ waiter'[n] = waiter[n]
      BY <1>1, <1>6 DEF PairTypes, Reboot
    <2>2. /\ waiter[n] \in Listen
          /\ Host[waiter[n]] = n
          /\ link[waiter[n]].host = "waiting"
      BY <1>1, <1>6, <2>1 DEF PairTypeOK, PairTypes
    <2>3. QED
      BY <1>3, <2>1, <2>2
  <1>7. PairTypes'
    BY <1>1, <1>2, <1>4, <1>5 DEF PairTypes
  <1>8. ASSUME NEW k \in Listen, link'[k].who = NoJoin
        PROVE  /\ link'[k].host \in {"idle", "waiting", "plain", "gone"}
               /\ link'[k].guest = "idle"
               /\ sent'[k] = {}
               /\ wrote'[k] = {}
    BY <1>2, <1>3, <1>8 DEF PairTypeOK
  <1>9. QED
    BY <1>6, <1>7, <1>8 DEF PairTypeOK

LEMMA StartsTyped == Init => PairTypeOK
  <1> SUFFICES ASSUME Init PROVE PairTypeOK
    OBVIOUS
  <1>1. /\ \A m \in Machine : FirstName[m] \in Name
        /\ \A l \in Listen : FirstName[Host[l]] \in Name
        /\ \A c \in Join : Route[c] \in Seq(Machine)
    BY PairingShape
  <1>2. /\ mem \in [Machine -> Trust] /\ disk \in [Machine -> Trust]
        /\ stuck \in [Machine -> BOOLEAN]
        /\ waiter \in [Machine -> Listen \cup {NoListen}]
    BY <1>1 DEF Init, Trust
  <1>3. link \in [Listen -> Link]
    BY <1>1 DEF Init, Link
  <1>4. command \in [Join -> Command]
    BY <1>1 DEF Init, Command
  <1>5. /\ sent \in [Listen -> SUBSET Message]
        /\ wrote \in [Listen -> SUBSET {"host", "guest"}]
        /\ faults \in Nat
    BY DEF Init
  <1>6. QED
    BY <1>2, <1>3, <1>4, <1>5 DEF PairTypeOK, PairTypes, Init

LEMMA KeepsTypes ==
  ASSUME PairTypeOK, [Next]_vars
  PROVE  PairTypeOK'
  <1>1. ASSUME NEW c \in Join, PairJoin(c) \/ Dial(c) \/ Skip(c) \/ GiveUp(c)
        PROVE  PairTypeOK'
    BY <1>1, DialTypes, CommandTypes
  <1>2. ASSUME NEW l \in Listen,
               \/ PairStart(l) \/ HostReply(l) \/ HostSave(l) \/ HostAck(l) \/ HostFail(l)
               \/ GuestCheck(l) \/ GuestSave(l) \/ GuestDone(l) \/ GuestFail(l)
        PROVE  PairTypeOK'
    BY <1>2, StartTypes, HandshakeTypes
  <1>3. ASSUME NEW m \in Machine, Reboot(m)
        PROVE  PairTypeOK'
    BY <1>3, RebootTypes
  <1>4. CASE UNCHANGED vars
    BY <1>4 DEF vars, PairTypeOK, PairTypes
  <1>5. QED
    BY <1>1, <1>2, <1>3, <1>4 DEF Next

\* Types, whatever machines, names and commands there are.
THEOREM PairTypeCorrect == PairingSpec => []PairTypeOK
  <1>1. PairTypeOK /\ [Next]_vars => PairTypeOK'
    BY KeepsTypes
  <1>2. QED
    BY <1>1, StartsTyped, PTL DEF PairingSpec

-----------------------------------------------------------------------------
(* What is saved *)

\* What a machine may save in place of s: it forgets no peer, keeps its name
\* once it has one, and stays unambiguous.
Extends(m, s, next) ==
  /\ next \in Trust
  /\ s.peers \subseteq next.peers
  /\ s.peers # {} => next.name = s.name
  /\ Valid(m, s) => Valid(m, next)

LEMMA RenamedExtends ==
  ASSUME PairTypes, NEW m \in Machine, NEW n \in Name \cup {NoName}, Renamable(m, n)
  PROVE  Extends(m, mem[m], Renamed(m, n))
  <1>1. mem[m] \in Trust /\ Renamed(m, n) \in Trust
    BY RenamedType DEF PairTypes
  <1>2. Renamed(m, n).peers = mem[m].peers
    BY <1>1 DEF Renamed, Trust
  <1>3. mem[m].peers # {} => Renamed(m, n).name = mem[m].name
    BY <1>1 DEF Renamed, Renamable, Trust
  <1>4. Valid(m, mem[m]) => Valid(m, Renamed(m, n))
    BY <1>2, <1>3 DEF Valid
  <1>5. QED
    BY <1>1, <1>2, <1>3, <1>4 DEF Extends

LEMMA WithExtends ==
  ASSUME PairTypes, NEW m \in Machine, NEW p \in Peer, Acceptable(m, p)
  PROVE  Extends(m, mem[m], With(mem[m], p))
  <1>1. mem[m] \in Trust
    BY DEF PairTypes
  <1>2. /\ With(mem[m], p).peers = mem[m].peers \cup {p}
        /\ With(mem[m], p).name = mem[m].name
    BY <1>1 DEF With, Trust
  <1>3. With(mem[m], p) \in Trust
    BY <1>1, WithType
  <1>4. QED
    BY <1>2, <1>3 DEF Extends, Acceptable

\* A step leaves the stores alone, reads one again from the disk, or saves.
StoreStep ==
  \/ UNCHANGED storeVars
  \/ \E m \in Machine : mem' = [mem EXCEPT ![m] = disk[m]] /\ UNCHANGED disk
                        /\ stuck' = [stuck EXCEPT ![m] = FALSE]
  \/ \E m \in Machine : \E next \in Trust :
       /\ Extends(m, mem[m], next)
       /\ Saved(m, next) \/ SaveFailed(m, next)

LEMMA StoreSteps ==
  ASSUME PairTypeOK, [Next]_vars
  PROVE  StoreStep
  <1>1. PairTypes
    BY DEF PairTypeOK
  <1>2. ASSUME NEW m \in Machine, NEW n \in Name \cup {NoName}, Renamable(m, n),
               Saved(m, Renamed(m, n)) \/ SaveFailed(m, Renamed(m, n))
        PROVE  StoreStep
    <2>1. Extends(m, mem[m], Renamed(m, n)) /\ Renamed(m, n) \in Trust
      BY <1>1, <1>2, RenamedExtends, RenamedType
    <2>2. QED
      BY <1>2, <2>1 DEF StoreStep
  <1>3. ASSUME NEW m \in Machine, NEW name, NEW p \in Peer, NEW l, NEW side,
               Persist(m, name, p, l, side)
        PROVE  StoreStep
    <2>1. CASE UNCHANGED storeVars
      BY <2>1 DEF StoreStep
    <2>2. CASE /\ Acceptable(m, p)
               /\ Saved(m, With(mem[m], p)) \/ SaveFailed(m, With(mem[m], p))
      <3>1. Extends(m, mem[m], With(mem[m], p)) /\ With(mem[m], p) \in Trust
        BY <1>1, <2>2, WithExtends DEF Extends
      <3>2. QED
        BY <2>2, <3>1 DEF StoreStep
    <2>3. QED
      BY <1>3, <2>1, <2>2 DEF Persist, storeVars
  <1>4. ASSUME NEW c \in Join, PairJoin(c) \/ Dial(c) \/ Skip(c) \/ GiveUp(c)
        PROVE  StoreStep
    <2>1. CASE PairJoin(c)
      <3>1. Guest[c] \in Machine /\ Called[c] \in Name \cup {NoName}
        BY PairingShape
      <3>2. QED
        BY <1>2, <2>1, <3>1 DEF PairJoin
    <2>2. CASE Dial(c) \/ Skip(c) \/ GiveUp(c)
      BY <2>2 DEF Dial, Skip, GiveUp, StoreStep
    <2>3. QED
      BY <1>4, <2>1, <2>2
  <1>5. ASSUME NEW l \in Listen, PairStart(l)
        PROVE  StoreStep
    <2>1. Host[l] \in Machine /\ Called[l] \in Name \cup {NoName}
      BY PairingShape
    <2>2. QED
      BY <1>2, <1>5, <2>1 DEF PairStart
  <1>6. ASSUME NEW l \in Listen, HostSave(l) \/ GuestSave(l)
        PROVE  StoreStep
    <2>1. link[l].who \in Join
      BY <1>6, Joined DEF HostSave, GuestSave
    <2>2. /\ HostPeer(l) \in Peer /\ GuestPeer(l) \in Peer
          /\ Host[l] \in Machine /\ Guest[link[l].who] \in Machine
      BY <1>1, <2>1, PeerTypes
    <2>3. QED
      BY <1>3, <1>6, <2>2 DEF HostSave, GuestSave
  <1>7. ASSUME NEW l \in Listen,
               HostReply(l) \/ HostAck(l) \/ HostFail(l) \/ GuestCheck(l) \/ GuestDone(l) \/ GuestFail(l)
        PROVE  StoreStep
    BY <1>7 DEF HostReply, HostAck, HostFail, GuestCheck, GuestDone, GuestFail, StoreStep
  <1>8. ASSUME NEW m \in Machine, Reboot(m)
        PROVE  StoreStep
    <2>1. /\ mem' = [mem EXCEPT ![m] = disk[m]] /\ UNCHANGED disk
          /\ stuck' = [stuck EXCEPT ![m] = FALSE]
      BY <1>8, Zenon DEF Reboot
    <2>2. QED
      BY <2>1, Zenon DEF StoreStep
  <1>9. CASE UNCHANGED vars
    BY <1>9 DEF vars, storeVars, StoreStep
  <1>10. QED
    BY <1>4, <1>5, <1>6, <1>7, <1>8, <1>9 DEF Next

LEMMA KeepsUnambiguous ==
  ASSUME PairTypeOK, Unambiguous, [Next]_vars
  PROVE  Unambiguous'
  <1>1. PairTypes /\ StoreStep
    BY StoreSteps DEF PairTypeOK
  <1>2. SUFFICES ASSUME NEW k \in Machine
                 PROVE  Valid(k, mem'[k]) /\ Valid(k, disk'[k])
    BY DEF Unambiguous, Valid
  <1>3. Valid(k, mem[k]) /\ Valid(k, disk[k])
    BY DEF Unambiguous
  <1>4. CASE UNCHANGED storeVars
    BY <1>3, <1>4 DEF storeVars
  <1>5. ASSUME NEW m \in Machine, mem' = [mem EXCEPT ![m] = disk[m]], UNCHANGED disk
        PROVE  Valid(k, mem'[k]) /\ Valid(k, disk'[k])
    <2>1. mem'[k] = mem[k] \/ mem'[k] = disk[k]
      BY <1>1, <1>5 DEF PairTypes
    <2>2. QED
      BY <1>3, <1>5, <2>1
  <1>6. ASSUME NEW m \in Machine, NEW next \in Trust,
               Extends(m, mem[m], next),
               Saved(m, next) \/ SaveFailed(m, next)
        PROVE  Valid(k, mem'[k]) /\ Valid(k, disk'[k])
    <2>1. mem' \in {mem, [mem EXCEPT ![m] = next]}
      BY <1>6, Zenon DEF Saved, SaveFailed
    <2>2. disk' \in {disk, [disk EXCEPT ![m] = next]}
      BY <1>6, Zenon DEF Saved, SaveFailed
    <2>3. /\ mem'[k] = mem[k] \/ (m = k /\ mem'[k] = next)
          /\ disk'[k] = disk[k] \/ (m = k /\ disk'[k] = next)
      BY <1>1, <2>1, <2>2 DEF PairTypes
    <2>4. m = k => Valid(k, next)
      BY <1>3, <1>6 DEF Extends
    <2>5. QED
      BY <1>3, <2>3, <2>4
  <1>7. QED
    BY <1>1, <1>4, <1>5, <1>6 DEF StoreStep

\* No machine ever has two peers of one name or one identity, or a peer that
\* has its own name or identity.
THEOREM NeverAmbiguous == PairingSpec => []Unambiguous
  <1>1. Init => Unambiguous
    <2>1. SUFFICES ASSUME Init, NEW m \in Machine
                   PROVE  Valid(m, mem[m]) /\ Valid(m, disk[m])
      BY DEF Unambiguous
    <2>2. mem[m] = [name |-> FirstName[m], peers |-> {}] /\ disk[m] = mem[m]
      BY <2>1 DEF Init
    <2>3. mem[m].peers = {} /\ disk[m].peers = {}
      BY <2>2
    <2>4. QED
      BY <2>3 DEF Valid
  <1>2. PairTypeOK /\ Unambiguous /\ [Next]_vars => Unambiguous'
    BY KeepsUnambiguous
  <1>3. QED
    BY <1>1, <1>2, PairTypeCorrect, PTL DEF PairingSpec

-----------------------------------------------------------------------------
(* What the reports rest on *)

\* The same for the steps of a handshake.
LEMMA GoMoves ==
  ASSUME PairTypeOK, NEW l \in Listen, link[l].who \in Join,
         NEW side \in Side, NEW step,
         step \in IF side = "host" THEN HostSteps ELSE GuestSteps,
         NEW message \in SUBSET Message, Go(l, side, step, message)
  PROVE  Moved(l, side, step, message)
  BY GoEffect DEF PairTypeOK

\* persist_peer either saves, and then says so, or is refused or fails.
PersistRefused(l, side, step) ==
  /\ step \in IF side = "host" THEN {"remote", "maybe"} ELSE {"plain", "maybe"}
  /\ Moved(l, side, step, {})
  /\ wrote' = wrote

PersistFailed(l, side) ==
  /\ Moved(l, side, "maybe", {})
  /\ wrote' = [wrote EXCEPT ![l] = wrote[l] \cup {side}]

PersistDone(l, side) ==
  /\ Moved(l, side, "saved", IF side = "guest" THEN {"join-committed"} ELSE {})
  /\ wrote' = [wrote EXCEPT ![l] = wrote[l] \cup {side}]

LEMMA PersistEffect ==
  ASSUME PairTypeOK, NEW l \in Listen, link[l].who \in Join, NEW side \in Side,
         NEW m \in Machine, NEW name, NEW peer \in Peer,
         Persist(m, name, peer, l, side)
  PROVE  \/ \E step \in {"remote", "plain", "maybe"} : PersistRefused(l, side, step)
         \/ PersistFailed(l, side)
         \/ PersistDone(l, side) /\ Same(m, name) /\ Saved(m, With(mem[m], peer))
  <1>1. ASSUME NEW step \in {"remote", "plain", "maybe", "saved"},
               side = "host" \/ step # "remote",
               NEW message \in SUBSET {"join-committed"},
               Go(l, side, step, message)
        PROVE  Moved(l, side, step, message)
    <2>1. step \in IF side = "host" THEN HostSteps ELSE GuestSteps
      BY <1>1 DEF HostSteps, GuestSteps, Report
    <2>2. message \in SUBSET Message
      BY DEF Message
    <2>3. QED
      BY <1>1, <2>1, <2>2, GoMoves
  <1>2. CASE /\ ~Same(m, name)
             /\ Go(l, side, IF side = "host" THEN "remote" ELSE "plain", {})
             /\ UNCHANGED <<storeVars, wrote>>
    BY <1>1, <1>2 DEF PersistRefused, Side
  <1>3. CASE Go(l, side, "maybe", {}) /\ UNCHANGED <<storeVars, wrote>>
    BY <1>1, <1>3 DEF PersistRefused, Side
  <1>4. CASE /\ Same(m, name)
             /\ Saved(m, With(mem[m], peer))
             /\ Go(l, side, "saved", IF side = "guest" THEN {"join-committed"} ELSE {})
             /\ wrote' = [wrote EXCEPT ![l] = @ \cup {side}]
    BY <1>1, <1>4 DEF PersistDone, Side
  <1>5. CASE /\ Go(l, side, "maybe", {})
             /\ wrote' = wrote \/ wrote' = [wrote EXCEPT ![l] = @ \cup {side}]
    BY <1>1, <1>5 DEF PersistRefused, PersistFailed, Side
  <1>6. QED
    BY <1>2, <1>3, <1>4, <1>5 DEF Persist

\* One connection moves: the others stay in order.
LEMMA OrderKept ==
  ASSUME HandshakeOrder, NEW l \in Listen, InOrder(l)',
         \A k \in Listen : k # l => link'[k] = link[k] /\ sent'[k] = sent[k] /\ wrote'[k] = wrote[k]
  PROVE  HandshakeOrder'
  <1> SUFFICES ASSUME NEW k \in Listen PROVE InOrder(k)'
    BY DEF HandshakeOrder
  <1>1. CASE k = l
    BY <1>1
  <1>2. CASE k # l
    BY <1>2 DEF HandshakeOrder, InOrder
  <1>3. QED
    BY <1>1, <1>2

LEMMA OrderInHandshake ==
  ASSUME PairTypeOK, HandshakeOrder, NEW l \in Listen,
         \/ HostReply(l) \/ HostSave(l) \/ HostAck(l) \/ HostFail(l)
         \/ GuestCheck(l) \/ GuestSave(l) \/ GuestDone(l) \/ GuestFail(l)
  PROVE  HandshakeOrder'
  <1>1. PairTypes /\ wrote \in [Listen -> SUBSET {"host", "guest"}]
    BY DEF PairTypeOK, PairTypes
  <1>2. link[l].who \in Join
    BY Joined DEF HostReply, HostSave, HostAck, HostFail, GuestCheck, GuestSave, GuestDone, GuestFail
  <1>3. /\ HostPeer(l) \in Peer /\ GuestPeer(l) \in Peer
        /\ Host[l] \in Machine /\ Guest[link[l].who] \in Machine
    BY <1>1, <1>2, PeerTypes
  <1>4. InOrder(l)
    BY DEF HandshakeOrder
  <1>5. ASSUME NEW side \in Side, NEW step, NEW message, Moved(l, side, step, message),
               wrote' = wrote \/ wrote' = [wrote EXCEPT ![l] = wrote[l] \cup {side}],
               InOrder(l)'
        PROVE  HandshakeOrder'
    <2>1. \A k \in Listen : k # l => link'[k] = link[k] /\ sent'[k] = sent[k] /\ wrote'[k] = wrote[k]
      BY <1>1, <1>5 DEF Moved
    <2>2. QED
      BY <1>5, <2>1, OrderKept
  <1>6. CASE HostReply(l)
    <2>1. /\ \/ Moved(l, "host", "told", {"listen-identity"})
             \/ Moved(l, "host", "plain", {})
          /\ wrote' = wrote /\ link[l].host = "open"
      BY <1>2, <1>6, GoMoves DEF HostReply, Side, HostSteps, Report, Message
    <2>2. InOrder(l)'
      BY <1>2, <1>4, <2>1, PairingShape DEF InOrder, Moved
    <2>3. QED
      BY <1>5, <2>1, <2>2 DEF Side
  <1>7. CASE HostAck(l)
    <2>1. /\ Moved(l, "host", "ok", {"listen-committed"})
          /\ wrote' = wrote /\ link[l].host = "saved"
      BY <1>2, <1>7, GoMoves DEF HostAck, Side, HostSteps, Report, Message
    <2>2. InOrder(l)'
      BY <1>2, <1>4, <2>1, PairingShape DEF InOrder, Moved
    <2>3. QED
      BY <1>5, <2>1, <2>2 DEF Side
  <1>8. CASE HostFail(l)
    <2>1. /\ wrote' = wrote
          /\ \/ link[l].host = "open" /\ Moved(l, "host", "plain", {})
             \/ link[l].host = "told" /\ Moved(l, "host", "remote", {})
             \/ /\ link[l].host = "saved"
                /\ \/ Moved(l, "host", "trusts", {})
                   \/ Moved(l, "host", "trusts", {"listen-committed"})
      BY <1>2, <1>8, GoMoves DEF HostFail, Side, HostSteps, Report, Message
    <2>2. InOrder(l)'
      BY <1>2, <1>4, <2>1, PairingShape DEF InOrder, Moved
    <2>3. QED
      BY <1>5, <2>1, <2>2 DEF Side
  <1>9. CASE GuestCheck(l)
    <2>1. /\ \/ Moved(l, "guest", "checked", {})
             \/ Moved(l, "guest", "plain", {})
          /\ wrote' = wrote /\ link[l].guest = "open" /\ "listen-identity" \in sent[l]
      BY <1>2, <1>9, GoMoves DEF GuestCheck, Side, GuestSteps, Report
    <2>2. InOrder(l)'
      BY <1>2, <1>4, <2>1, PairingShape DEF InOrder, Moved
    <2>3. QED
      BY <1>5, <2>1, <2>2 DEF Side
  <1>10. CASE GuestDone(l)
    <2>1. /\ Moved(l, "guest", "ok", {})
          /\ wrote' = wrote /\ link[l].guest = "saved" /\ "listen-committed" \in sent[l]
      BY <1>2, <1>10, GoMoves DEF GuestDone, Side, GuestSteps, Report
    <2>2. InOrder(l)'
      BY <1>2, <1>4, <2>1, PairingShape DEF InOrder, Moved
    <2>3. QED
      BY <1>5, <2>1, <2>2 DEF Side
  <1>11. CASE GuestFail(l)
    <2>1. /\ wrote' = wrote
          /\ \/ link[l].guest = "open" /\ Moved(l, "guest", "plain", {})
             \/ link[l].guest = "saved" /\ Moved(l, "guest", "trusts", {})
      BY <1>2, <1>11, GoMoves DEF GuestFail, Side, GuestSteps, Report
    <2>2. InOrder(l)'
      BY <1>2, <1>4, <2>1, PairingShape DEF InOrder, Moved
    <2>3. QED
      BY <1>5, <2>1, <2>2 DEF Side
  <1>12. CASE HostSave(l)
    <2>1. /\ link[l].host = "told" /\ "join-committed" \in sent[l]
          /\ \/ \E step \in {"remote", "plain", "maybe"} : PersistRefused(l, "host", step)
             \/ PersistFailed(l, "host")
             \/ PersistDone(l, "host")
      BY <1>2, <1>3, <1>12, PersistEffect DEF HostSave, Side
    <2>2. InOrder(l)'
      BY <1>1, <1>2, <1>4, <2>1, PairingShape
      DEF InOrder, Moved, PersistRefused, PersistFailed, PersistDone
    <2>3. QED
      BY <1>5, <2>1, <2>2 DEF Side, PersistRefused, PersistFailed, PersistDone
  <1>13. CASE GuestSave(l)
    <2>1. /\ link[l].guest = "checked"
          /\ \/ \E step \in {"remote", "plain", "maybe"} : PersistRefused(l, "guest", step)
             \/ PersistFailed(l, "guest")
             \/ PersistDone(l, "guest")
      BY <1>2, <1>3, <1>13, PersistEffect DEF GuestSave, Side
    <2>2. InOrder(l)'
      BY <1>1, <1>2, <1>4, <2>1, PairingShape
      DEF InOrder, Moved, PersistRefused, PersistFailed, PersistDone
    <2>3. QED
      BY <1>5, <2>1, <2>2 DEF Side, PersistRefused, PersistFailed, PersistDone
  <1>14. QED
    BY <1>6, <1>7, <1>8, <1>9, <1>10, <1>11, <1>12, <1>13

LEMMA OrderElsewhere ==
  ASSUME PairTypeOK, HandshakeOrder,
         \/ \E c \in Join : PairJoin(c) \/ Dial(c) \/ Skip(c) \/ GiveUp(c)
         \/ \E l \in Listen : PairStart(l)
         \/ \E m \in Machine : Reboot(m)
         \/ UNCHANGED vars
  PROVE  HandshakeOrder'
  <1>1. PairTypes
    BY DEF PairTypeOK
  <1>2. ASSUME NEW c \in Join, Dial(c)
        PROVE  HandshakeOrder'
    <2>1. PICK m \in Machine : Dialled(c, m)
      BY <1>1, <1>2, DialEffect DEF PairTypeOK
    <2>2. PICK l \in Listen : l = waiter[m] /\ wrote' = wrote /\ link[l].host = "waiting"
      BY <1>1, <1>2, <2>1, PairingShape DEF Dial, Dialled, PairTypeOK
    <2>3. wrote[l] = {}
      BY <2>2 DEF HandshakeOrder, InOrder, PairTypeOK
    <2>4. \A k \in Listen : k # l => link'[k] = link[k] /\ sent'[k] = sent[k]
      BY <1>1, <2>1, <2>2 DEF PairTypes, Dialled
    <2>5. /\ link'[l].host = "open" /\ link'[l].guest = "open" /\ link'[l].who = c
          /\ sent'[l] = {"join-identity"}
      BY <1>1, <2>1, <2>2 DEF PairTypes, Dialled
    <2>6. InOrder(l)'
      BY <2>2, <2>3, <2>5, PairingShape DEF InOrder
    <2>7. QED
      BY <2>2, <2>4, <2>6, OrderKept
  <1>3. ASSUME NEW l \in Listen, PairStart(l)
        PROVE  HandshakeOrder'
    <2>1. UNCHANGED <<sent, wrote>>
      BY <1>3 DEF PairStart
    <2>2. SUFFICES ASSUME NEW k \in Listen PROVE InOrder(k)'
      BY DEF HandshakeOrder
    <2>3. \/ link'[k] = link[k]
          \/ /\ link[k].host \in {"idle", "waiting"}
             /\ link'[k] = [link[k] EXCEPT !.host = "waiting"]
          \/ /\ link[k].host \in {"idle", "waiting"}
             /\ link'[k] = [link[k] EXCEPT !.host = "plain"]
      <3>1. k = waiter[Host[l]] => link[k].host = "waiting"
        BY <1>1, PairingShape DEF PairTypeOK
      <3>2. QED
        BY <1>3, <3>1 DEF PairStart
    <2>4. link[k] \in Link
      BY <1>1 DEF PairTypes
    <2>5. InOrder(k)
      BY DEF HandshakeOrder
    <2>6. link[k].host \in {"idle", "waiting"} => sent[k] = {} /\ wrote[k] = {} /\ link[k].who = NoJoin
      BY <2>5 DEF InOrder, PairTypeOK
    <2>7. CASE link'[k] = link[k]
      BY <2>1, <2>5, <2>7 DEF InOrder
    <2>8. CASE link'[k] # link[k]
      <3>1. /\ link'[k].who = link[k].who /\ link'[k].guest = link[k].guest
            /\ link'[k].host \in {"waiting", "plain"}
            /\ link[k].host \in {"idle", "waiting"}
        BY <2>3, <2>4, <2>8 DEF Link
      <3>2. QED
        BY <2>1, <2>5, <2>6, <3>1 DEF InOrder
    <2>9. QED
      BY <2>7, <2>8
  <1>4. ASSUME NEW m \in Machine, Reboot(m)
        PROVE  HandshakeOrder'
    <2>1. SUFFICES ASSUME NEW k \in Listen PROVE InOrder(k)'
      BY DEF HandshakeOrder
    <2>2. UNCHANGED <<sent, wrote>>
      BY <1>4 DEF Reboot
    <2>3. /\ link'[k].who = link[k].who
          /\ \/ link'[k].host = link[k].host
             \/ link[k].host \in {"waiting", "open", "told", "saved"} /\ link'[k].host = "gone"
          /\ \/ link'[k].guest = link[k].guest
             \/ link[k].guest \in {"open", "checked", "saved"} /\ link'[k].guest = "gone"
      BY <1>1, <1>4, RebootLinks
    <2>4. InOrder(k)
      BY DEF HandshakeOrder
    <2>5. QED
      BY <2>2, <2>3, <2>4 DEF InOrder
  <1>5. ASSUME UNCHANGED <<link, sent, wrote>>
        PROVE  HandshakeOrder'
    BY <1>5 DEF HandshakeOrder, InOrder
  <1>6. QED
    BY <1>2, <1>3, <1>4, <1>5 DEF PairJoin, Skip, GiveUp, vars

\* A step of a handshake moves one side of one connection.
LEMMA HandshakeMoves ==
  ASSUME PairTypeOK, NEW l \in Listen,
         \/ HostReply(l) \/ HostSave(l) \/ HostAck(l) \/ HostFail(l)
         \/ GuestCheck(l) \/ GuestSave(l) \/ GuestDone(l) \/ GuestFail(l)
  PROVE  /\ link[l].who \in Join
         /\ \/ \E step, message : Moved(l, "host", step, message)
            \/ /\ \E step \in {"checked", "saved"} \cup Report : \E message : Moved(l, "guest", step, message)
               /\ link[l].guest \in {"open", "checked", "saved"}
  <1>1. PairTypes
    BY DEF PairTypeOK
  <1>2. link[l].who \in Join
    BY Joined DEF HostReply, HostSave, HostAck, HostFail, GuestCheck, GuestSave, GuestDone, GuestFail
  <1>3. /\ HostPeer(l) \in Peer /\ GuestPeer(l) \in Peer
        /\ Host[l] \in Machine /\ Guest[link[l].who] \in Machine
    BY <1>1, <1>2, PeerTypes
  <1>4. CASE HostReply(l) \/ HostAck(l) \/ HostFail(l)
    <2>1. \E step \in {"told", "plain", "ok", "remote", "trusts"}, message \in SUBSET Message :
            Go(l, "host", step, message)
      BY <1>4 DEF HostReply, HostAck, HostFail, Message
    <2>2. QED
      BY <1>2, <2>1, GoMoves DEF Side, HostSteps, Report
  <1>5. CASE GuestCheck(l) \/ GuestDone(l) \/ GuestFail(l)
    <2>1. /\ \E step \in {"checked", "plain", "ok", "trusts"}, message \in SUBSET Message :
               Go(l, "guest", step, message)
          /\ link[l].guest \in {"open", "checked", "saved"}
      BY <1>5 DEF GuestCheck, GuestDone, GuestFail
    <2>2. QED
      BY <1>2, <2>1, GoMoves DEF Side, GuestSteps, Report
  <1>6. CASE HostSave(l)
    BY <1>2, <1>3, <1>6, PersistEffect
    DEF HostSave, Side, PersistRefused, PersistFailed, PersistDone
  <1>7. CASE GuestSave(l)
    <2>1. \E step \in {"plain", "maybe", "saved"} : \E message : Moved(l, "guest", step, message)
      BY <1>2, <1>3, <1>7, PersistEffect
      DEF GuestSave, Side, PersistRefused, PersistFailed, PersistDone
    <2>2. QED
      BY <1>2, <1>7, <2>1 DEF GuestSave, Report
  <1>8. QED
    BY <1>2, <1>4, <1>5, <1>6, <1>7

LEMMA KeepsOneAttempt ==
  ASSUME PairTypeOK, OneAttempt, HandshakeOrder, [Next]_vars
  PROVE  OneAttempt'
  <1>1. PairTypes
    BY DEF PairTypeOK
  <1>2. ASSUME NEW l \in Listen,
               \/ HostReply(l) \/ HostSave(l) \/ HostAck(l) \/ HostFail(l)
               \/ GuestCheck(l) \/ GuestSave(l) \/ GuestDone(l) \/ GuestFail(l)
        PROVE  OneAttempt'
    <2>1. link[l].who \in Join
      BY <1>2, HandshakeMoves
    <2>2. ASSUME NEW step, NEW message, Moved(l, "host", step, message)
          PROVE  OneAttempt'
      BY <2>2 DEF Moved, OneAttempt
    <2>3. ASSUME NEW step \in {"checked", "saved"} \cup Report, NEW message,
                 Moved(l, "guest", step, message),
                 link[l].guest \in {"open", "checked", "saved"}
          PROVE  OneAttempt'
      <3>1. SUFFICES ASSUME NEW c \in Join, NEW k \in Listen, link'[k].who = c
                     PROVE  /\ command'[c].step \in {"dialling", "plain"} => link'[k].guest = "plain"
                            /\ command'[c].step # "idle"
                            /\ link'[k].guest \in {"open", "checked", "saved"} =>
                                 /\ command'[c].step = "busy"
                                 /\ \A j \in Listen : link'[j].who = c /\ j # k => link'[j].guest = "plain"
        BY DEF OneAttempt
      <3>2. /\ \A j \in Listen : link'[j].who = link[j].who
            /\ \A j \in Listen : j # l => link'[j].guest = link[j].guest
            /\ link'[l].guest = step
        BY <2>3 DEF Moved
      <3>3. CASE c # link[l].who
        BY <2>3, <3>1, <3>2, <3>3 DEF Moved, OneAttempt
      <3>4. CASE c = link[l].who
        <4>1. /\ command[c].step = "busy"
              /\ \A j \in Listen : link[j].who = c /\ j # l => link[j].guest = "plain"
          BY <2>1, <2>3, <3>4 DEF OneAttempt
        <4>2. IF step \in Report
              THEN command'[c].step = IF step = "plain" THEN "dialling" ELSE step
              ELSE command'[c].step = "busy"
          BY <2>3, <3>4, <4>1 DEF Moved
        <4>3. QED
          BY <3>1, <3>2, <4>1, <4>2 DEF Report
      <3>5. QED
        BY <3>3, <3>4
    <2>4. QED
      BY <1>2, <2>2, <2>3, HandshakeMoves
  <1>3. ASSUME NEW c \in Join, Dial(c)
        PROVE  OneAttempt'
    <2>1. PICK m \in Machine : Dialled(c, m)
      BY <1>1, <1>3, DialEffect DEF PairTypeOK
    <2>2. PICK l \in Listen : l = waiter[m] /\ link[l].who = NoJoin
      BY <2>1, PairingShape DEF Dialled, PairTypeOK, HandshakeOrder, InOrder
    <2>3. /\ \A k \in Listen : k # l => link'[k] = link[k]
          /\ link'[l].guest = "open" /\ link'[l].who = c
          /\ command[c].step = "dialling" /\ command'[c].step = "busy"
          /\ \A d \in Join : d # c => command'[d] = command[d]
      BY <1>1, <2>1, <2>2 DEF PairTypes, Dialled
    <2>4. \A k \in Listen : k # l /\ link'[k].who = c => link'[k].guest = "plain"
      BY <2>3 DEF OneAttempt
    <2>5. QED
      BY <2>3, <2>4 DEF OneAttempt
  <1>4. ASSUME NEW c \in Join, PairJoin(c) \/ Skip(c) \/ GiveUp(c)
        PROVE  OneAttempt'
    <2>1. link' = link /\ \A d \in Join : d # c => command'[d] = command[d]
      BY <1>1, <1>4 DEF PairJoin, Skip, GiveUp, PairTypes
    <2>2. CASE PairJoin(c)
      <3>1. /\ command[c].step = "idle"
            /\ command' = command \/ command' = [command EXCEPT ![c].step = "dialling"]
        BY <2>2 DEF PairJoin
      <3>2. \A k \in Listen : link[k].who # c
        BY <3>1 DEF OneAttempt
      <3>3. QED
        BY <2>1, <3>2 DEF OneAttempt
    <2>3. CASE Skip(c) \/ GiveUp(c)
      <3>1. command[c].step = "dialling" /\ command'[c].step \in {"dialling", "plain"}
        BY <1>1, <2>3 DEF Skip, GiveUp, PairTypes, Command
      <3>2. \A k \in Listen : link[k].who = c => link[k].guest = "plain"
        BY <3>1 DEF OneAttempt
      <3>3. QED
        BY <2>1, <3>1, <3>2 DEF OneAttempt
    <2>4. QED
      BY <1>4, <2>2, <2>3
  <1>5. ASSUME NEW l \in Listen, PairStart(l)
        PROVE  OneAttempt'
    <2>1. command' = command
      BY <1>5 DEF PairStart
    <2>2. \A k \in Listen : link'[k].who = link[k].who /\ link'[k].guest = link[k].guest
      <3>1. SUFFICES ASSUME NEW k \in Listen
                     PROVE  link'[k].who = link[k].who /\ link'[k].guest = link[k].guest
        OBVIOUS
      <3>2. link[k] \in Link
        BY <1>1 DEF PairTypes
      <3>3. \/ link'[k] = link[k]
            \/ link'[k] = [link[k] EXCEPT !.host = "waiting"]
            \/ link'[k] = [link[k] EXCEPT !.host = "plain"]
        BY <1>5 DEF PairStart
      <3>4. QED
        BY <3>2, <3>3 DEF Link
    <2>3. QED
      BY <2>1, <2>2 DEF OneAttempt
  <1>6. ASSUME NEW m \in Machine, Reboot(m)
        PROVE  OneAttempt'
    <2>1. \A k \in Listen :
            /\ link'[k].who = link[k].who
            /\ \/ link'[k].guest = link[k].guest
               \/ link[k].guest \in {"open", "checked", "saved"} /\ link'[k].guest = "gone"
            /\ link'[k].guest \in {"open", "checked", "saved"} => Guest[link[k].who] # m
      BY <1>1, <1>6, RebootLinks
    <2>2. \A c \in Join :
            \/ command'[c] = command[c]
            \/ /\ Guest[c] = m /\ command'[c].step = "gone"
      <3>1. SUFFICES ASSUME NEW c \in Join, command'[c] # command[c]
                     PROVE  Guest[c] = m /\ command'[c].step = "gone"
        OBVIOUS
      <3>2. command[c] \in Command
        BY <1>1 DEF PairTypes
      <3>3. Guest[c] = m /\ command'[c] = [command[c] EXCEPT !.step = "gone"]
        BY <1>6, <3>1 DEF Reboot
      <3>4. QED
        BY <3>2, <3>3 DEF Command
    <2>3. QED
      BY <2>1, <2>2 DEF OneAttempt
  <1>7. CASE UNCHANGED vars
    BY <1>7 DEF vars, OneAttempt
  <1>8. QED
    BY <1>2, <1>3, <1>4, <1>5, <1>6, <1>7 DEF Next

\* While memory is the disk, a machine keeps its peers, and its name with them.
LEMMA StoresGrow ==
  ASSUME PairTypeOK, InStep, [Next]_vars, NEW k \in Machine
  PROVE  /\ ~stuck'[k] => mem'[k] = disk'[k]
         /\ disk[k].peers \subseteq disk'[k].peers
         /\ disk[k].peers # {} => disk'[k].name = disk[k].name
  <1>1. PairTypes /\ StoreStep
    BY StoreSteps DEF PairTypeOK
  <1>2. CASE UNCHANGED storeVars
    BY <1>2 DEF storeVars, InStep
  <1>3. ASSUME NEW m \in Machine, mem' = [mem EXCEPT ![m] = disk[m]], UNCHANGED disk,
               stuck' = [stuck EXCEPT ![m] = FALSE]
        PROVE  /\ ~stuck'[k] => mem'[k] = disk'[k]
               /\ disk' = disk
    <2>1. CASE k = m
      BY <1>1, <1>3, <2>1 DEF PairTypes
    <2>2. CASE k # m
      <3>1. stuck'[k] = stuck[k] /\ mem'[k] = mem[k]
        BY <1>1, <1>3, <2>2 DEF PairTypes
      <3>2. QED
        BY <1>3, <3>1 DEF InStep
    <2>3. QED
      BY <2>1, <2>2
  <1>4. ASSUME NEW m \in Machine, NEW next \in Trust, Extends(m, mem[m], next), Saved(m, next)
        PROVE  /\ ~stuck'[k] => mem'[k] = disk'[k]
               /\ disk[k].peers \subseteq disk'[k].peers
               /\ disk[k].peers # {} => disk'[k].name = disk[k].name
    <2>1. /\ mem' = [mem EXCEPT ![m] = next] /\ disk' = [disk EXCEPT ![m] = next]
          /\ stuck' = stuck /\ mem[m] = disk[m]
      BY <1>4 DEF Saved, InStep
    <2>2. CASE k = m
      <3>1. mem'[k] = next /\ disk'[k] = next
        BY <1>1, <2>1, <2>2 DEF PairTypes
      <3>2. QED
        BY <1>4, <2>1, <2>2, <3>1 DEF Extends
    <2>3. CASE k # m
      <3>1. mem'[k] = mem[k] /\ disk'[k] = disk[k]
        BY <1>1, <2>1, <2>3 DEF PairTypes
      <3>2. QED
        BY <2>1, <3>1 DEF InStep
    <2>4. QED
      BY <2>2, <2>3
  <1>5. ASSUME NEW m \in Machine, NEW next \in Trust, Extends(m, mem[m], next), SaveFailed(m, next)
        PROVE  /\ ~stuck'[k] => mem'[k] = disk'[k]
               /\ disk[k].peers \subseteq disk'[k].peers
               /\ disk[k].peers # {} => disk'[k].name = disk[k].name
    <2>1. /\ mem' = mem /\ disk' \in {disk, [disk EXCEPT ![m] = next]}
          /\ stuck' = [stuck EXCEPT ![m] = TRUE] /\ mem[m] = disk[m]
      BY <1>5 DEF SaveFailed, InStep
    <2>2. CASE k = m
      <3>1. stuck'[k] /\ disk'[k] \in {disk[k], next}
        BY <1>1, <2>1, <2>2 DEF PairTypes
      <3>2. QED
        BY <1>5, <2>1, <2>2, <3>1 DEF Extends
    <2>3. CASE k # m
      <3>1. stuck'[k] = stuck[k] /\ disk'[k] = disk[k]
        BY <1>1, <2>1, <2>3 DEF PairTypes
      <3>2. QED
        BY <2>1, <3>1 DEF InStep
    <2>4. QED
      BY <2>2, <2>3
  <1>6. QED
    BY <1>1, <1>2, <1>3, <1>4, <1>5 DEF StoreStep

\* A connection about which nothing new is saved keeps what was.
LEMMA SavedKept ==
  ASSUME PairTypeOK, InStep, HandshakeOrder, [Next]_vars, NEW l \in Listen,
         link'[l].who = link[l].who,
         link'[l].hostName = link[l].hostName, link'[l].guestName = link[l].guestName
  PROVE  /\ GuestSaved(l) /\ ("join-committed" \in sent'[l] => "join-committed" \in sent[l])
              => GuestSaved(l)'
         /\ HostSaved(l) /\ (link'[l].host \in {"saved", "ok", "trusts"}
                              => link[l].host \in {"saved", "ok", "trusts"})
              => HostSaved(l)'
  <1>1. HostPeer(l)' = HostPeer(l) /\ GuestPeer(l)' = GuestPeer(l)
    BY DEF HostPeer, GuestPeer
  <1>2. "join-committed" \in sent[l] \/ link[l].host \in {"saved", "ok", "trusts"}
          => link[l].who \in Join
    <2>1. link[l] \in Link
      BY DEF PairTypeOK, PairTypes
    <2>2. QED
      BY <2>1 DEF PairTypeOK, Link
  <1>3. Host[l] \in Machine /\ (link[l].who \in Join => Guest[link[l].who] \in Machine)
    BY PairingShape
  <1>4. ASSUME GuestSaved(l), "join-committed" \in sent'[l] => "join-committed" \in sent[l]
        PROVE  GuestSaved(l)'
    BY <1>1, <1>2, <1>3, <1>4, StoresGrow DEF GuestSaved
  <1>5. ASSUME HostSaved(l), link'[l].host \in {"saved", "ok", "trusts"}
                               => link[l].host \in {"saved", "ok", "trusts"}
        PROVE  HostSaved(l)'
    BY <1>1, <1>2, <1>3, <1>5, StoresGrow DEF HostSaved
  <1>6. QED
    BY <1>4, <1>5

LEMMA KeepsTrustSaved ==
  ASSUME PairTypeOK, HandshakeOrder, TrustSaved, [Next]_vars
  PROVE  TrustSaved'
  <1>1. PairTypes /\ InStep
    BY DEF PairTypeOK, TrustSaved
  <1>2. InStep'
    BY <1>1, StoresGrow DEF InStep
  <1>3. SUFFICES ASSUME NEW k \in Listen
                 PROVE  GuestSaved(k)' /\ HostSaved(k)'
    BY <1>2 DEF TrustSaved
  <1>4. GuestSaved(k) /\ HostSaved(k)
    BY DEF TrustSaved
  <1>5. ASSUME link'[k].who = link[k].who,
               link'[k].hostName = link[k].hostName, link'[k].guestName = link[k].guestName,
               "join-committed" \in sent'[k] => "join-committed" \in sent[k],
               link'[k].host \in {"saved", "ok", "trusts"}
                 => link[k].host \in {"saved", "ok", "trusts"}
        PROVE  GuestSaved(k)' /\ HostSaved(k)'
    BY <1>1, <1>4, <1>5, SavedKept
  <1>6. ASSUME NEW l \in Listen, NEW side \in Side, NEW step, NEW message,
               Moved(l, side, step, message),
               "join-committed" \notin message,
               side = "host" /\ step \in {"saved", "ok", "trusts"} => link[l].host = "saved"
        PROVE  GuestSaved(k)' /\ HostSaved(k)'
    BY <1>5, <1>6 DEF Moved
  <1>7. ASSUME NEW l \in Listen, HostReply(l) \/ HostAck(l) \/ HostFail(l)
        PROVE  GuestSaved(k)' /\ HostSaved(k)'
    <2>1. link[l].who \in Join
      BY <1>7, HandshakeMoves
    <2>2. \E step \in {"told", "plain", "ok", "remote", "trusts"} :
            \E message \in SUBSET {"listen-identity", "listen-committed"} :
              /\ Go(l, "host", step, message)
              /\ step \in {"ok", "trusts"} => link[l].host = "saved"
      BY <1>7 DEF HostReply, HostAck, HostFail
    <2>3. \E step \in {"told", "plain", "ok", "remote", "trusts"} :
            \E message \in SUBSET {"listen-identity", "listen-committed"} :
              /\ Moved(l, "host", step, message)
              /\ step \in {"ok", "trusts"} => link[l].host = "saved"
      BY <2>1, <2>2, GoMoves DEF Side, HostSteps, Report, Message
    <2>4. QED
      BY <1>6, <2>3 DEF Side
  <1>8. ASSUME NEW l \in Listen, GuestCheck(l) \/ GuestDone(l) \/ GuestFail(l)
        PROVE  GuestSaved(k)' /\ HostSaved(k)'
    <2>1. link[l].who \in Join
      BY <1>8, HandshakeMoves
    <2>2. \E step \in {"checked", "plain", "ok", "trusts"} : Go(l, "guest", step, {})
      BY <1>8 DEF GuestCheck, GuestDone, GuestFail
    <2>3. \E step \in {"checked", "plain", "ok", "trusts"} : Moved(l, "guest", step, {})
      BY <2>1, <2>2, GoMoves DEF Side, GuestSteps, Report
    <2>4. QED
      BY <1>6, <2>3 DEF Side
  <1>9. ASSUME NEW l \in Listen, HostSave(l) \/ GuestSave(l)
        PROVE  /\ link[l].who \in Join
               /\ HostPeer(l) \in Peer /\ GuestPeer(l) \in Peer
               /\ Host[l] \in Machine /\ Guest[link[l].who] \in Machine
    BY <1>1, <1>9, HandshakeMoves, PeerTypes
  <1>10. ASSUME NEW m \in Machine, NEW peer \in Peer, NEW name, Same(m, name),
                Saved(m, With(mem[m], peer))
         PROVE  peer \in disk'[m].peers /\ disk'[m].name = name
    <2>1. mem[m] \in Trust
      BY <1>1 DEF PairTypes
    <2>2. disk'[m] = With(mem[m], peer)
      BY <1>1, <1>10 DEF Saved, PairTypes
    <2>3. QED
      BY <1>10, <2>1, <2>2 DEF With, Trust, Same
  <1>11. ASSUME NEW l \in Listen, HostSave(l)
         PROVE  GuestSaved(k)' /\ HostSaved(k)'
    <2>1. CASE \/ \E step \in {"remote", "plain", "maybe"} : PersistRefused(l, "host", step)
               \/ PersistFailed(l, "host")
      BY <1>6, <2>1 DEF PersistRefused, PersistFailed, Side
    <2>2. CASE /\ PersistDone(l, "host") /\ Same(Host[l], link[l].hostName)
               /\ Saved(Host[l], With(mem[Host[l]], GuestPeer(l)))
      <3>1. Moved(l, "host", "saved", {})
        BY <2>2 DEF PersistDone
      <3>2. GuestPeer(l) \in disk'[Host[l]].peers /\ disk'[Host[l]].name = link[l].hostName
        BY <1>9, <1>10, <1>11, <2>2
      <3>3. HostSaved(l)'
        BY <3>1, <3>2 DEF HostSaved, GuestPeer, Moved
      <3>4. k = l => GuestSaved(k)'
        BY <1>1, <1>4, <3>1, SavedKept DEF Moved
      <3>5. k # l => GuestSaved(k)' /\ HostSaved(k)'
        BY <1>5, <3>1 DEF Moved
      <3>6. QED
        BY <3>3, <3>4, <3>5
    <2>3. QED
      BY <1>9, <1>11, <2>1, <2>2, PersistEffect DEF HostSave, Side
  <1>12. ASSUME NEW l \in Listen, GuestSave(l)
         PROVE  GuestSaved(k)' /\ HostSaved(k)'
    <2> DEFINE g == Guest[link[l].who]
    <2>1. CASE \/ \E step \in {"remote", "plain", "maybe"} : PersistRefused(l, "guest", step)
               \/ PersistFailed(l, "guest")
      BY <1>6, <2>1 DEF PersistRefused, PersistFailed, Side
    <2>2. CASE /\ PersistDone(l, "guest") /\ Same(g, link[l].guestName)
               /\ Saved(g, With(mem[g], HostPeer(l)))
      <3>1. Moved(l, "guest", "saved", {"join-committed"})
        BY <2>2 DEF PersistDone
      <3>2. HostPeer(l) \in disk'[g].peers /\ disk'[g].name = link[l].guestName
        BY <1>9, <1>10, <1>12, <2>2
      <3>3. GuestSaved(l)'
        BY <3>1, <3>2 DEF GuestSaved, HostPeer, Moved
      <3>4. k = l => HostSaved(k)'
        BY <1>1, <1>4, <3>1, SavedKept DEF Moved
      <3>5. k # l => GuestSaved(k)' /\ HostSaved(k)'
        BY <1>5, <3>1 DEF Moved
      <3>6. QED
        BY <3>3, <3>4, <3>5
    <2>3. QED
      BY <1>9, <1>12, <2>1, <2>2, PersistEffect DEF GuestSave, Side
  <1>13. ASSUME NEW c \in Join, Dial(c)
         PROVE  GuestSaved(k)' /\ HostSaved(k)'
    <2>1. PICK m \in Machine : Dialled(c, m)
      BY <1>1, <1>13, DialEffect DEF PairTypeOK
    <2>2. PICK l \in Listen : l = waiter[m]
      BY <2>1 DEF Dialled
    <2>3. /\ \A j \in Listen : j # l => link'[j] = link[j] /\ sent'[j] = sent[j]
          /\ link'[l].host = "open" /\ sent'[l] = {"join-identity"}
      BY <1>1, <2>1, <2>2 DEF PairTypes, Dialled
    <2>4. CASE k = l
      BY <2>3, <2>4 DEF GuestSaved, HostSaved
    <2>5. CASE k # l
      BY <1>5, <2>3, <2>5
    <2>6. QED
      BY <2>4, <2>5
  <1>14. ASSUME NEW l \in Listen, PairStart(l)
         PROVE  GuestSaved(k)' /\ HostSaved(k)'
    <2>1. link[k] \in Link
      BY <1>1 DEF PairTypes
    <2>2. /\ sent' = sent
          /\ \/ link'[k] = link[k]
             \/ link'[k] = [link[k] EXCEPT !.host = "waiting"]
             \/ link'[k] = [link[k] EXCEPT !.host = "plain"]
      BY <1>14 DEF PairStart
    <2>3. QED
      BY <1>5, <2>1, <2>2 DEF Link
  <1>15. ASSUME NEW m \in Machine, Reboot(m)
         PROVE  GuestSaved(k)' /\ HostSaved(k)'
    BY <1>1, <1>5, <1>15, RebootLinks DEF Reboot
  <1>16. ASSUME UNCHANGED <<link, sent>>
         PROVE  GuestSaved(k)' /\ HostSaved(k)'
    BY <1>5, <1>16
  <1>17. QED
    BY <1>7, <1>8, <1>11, <1>12, <1>13, <1>14, <1>15, <1>16
    DEF Next, PairJoin, Skip, GiveUp, vars

LEMMA PairInvariant == PairingSpec => []PairInv
  <1>1. Init => PairInv
    <2> SUFFICES ASSUME Init PROVE PairInv
      OBVIOUS
    <2>1. PairTypeOK
      BY StartsTyped
    <2>2. \A l \in Listen : /\ link[l].host = "idle" /\ link[l].guest = "idle"
                            /\ link[l].who = NoJoin
                            /\ sent[l] = {} /\ wrote[l] = {}
      BY DEF Init
    <2>3. HandshakeOrder
      BY <2>2 DEF HandshakeOrder, InOrder
    <2>4. OneAttempt
      BY <2>2, PairingShape DEF OneAttempt
    <2>5. TrustSaved
      <3>1. InStep
        BY DEF Init, InStep
      <3>2. QED
        BY <2>2, <3>1 DEF TrustSaved, GuestSaved, HostSaved
    <2>6. QED
      BY <2>1, <2>3, <2>4, <2>5 DEF PairInv
  <1>2. PairInv /\ [Next]_vars => PairInv'
    <2> SUFFICES ASSUME PairInv, [Next]_vars PROVE PairInv'
      OBVIOUS
    <2>1. HandshakeOrder'
      BY OrderInHandshake, OrderElsewhere DEF PairInv, Next
    <2>2. QED
      BY <2>1, KeepsTypes, KeepsOneAttempt, KeepsTrustSaved DEF PairInv
  <1>3. QED
    BY <1>1, <1>2, PTL DEF PairingSpec

\* Nothing was written for a connection that has not come as far as a save.
LEMMA NothingWritten ==
  ASSUME PairInv, NEW l \in Listen, "plain" \in {link[l].host, link[l].guest}
  PROVE  wrote[l] = {}
  <1>1. InOrder(l) /\ wrote[l] \in SUBSET {"host", "guest"}
    BY DEF PairInv, HandshakeOrder, PairTypeOK, PairTypes
  <1>2. "guest" \notin wrote[l]
    BY <1>1 DEF InOrder
  <1>3. "host" \notin wrote[l]
    BY <1>1, <1>2 DEF InOrder
  <1>4. QED
    BY <1>1, <1>2, <1>3

\* Every report is true: an attempt that failed plainly left no trust behind,
\* and what is said of this machine is so.
THEOREM NothingConcealed == PairingSpec => []ReportsTruthful
  <1>1. ASSUME PairInv PROVE ReportsTruthful
    <2>1. ASSUME NEW l \in Listen, link[l].host = "remote"
          PROVE  "host" \notin wrote[l]
      BY <1>1, <2>1 DEF PairInv, HandshakeOrder, InOrder
    <2>2. ASSUME NEW l \in Listen, link[l].host = "trusts"
          PROVE  Trusts(Host[l], Guest[link[l].who])
      <3>1. GuestPeer(l) \in disk[Host[l]].peers
        BY <1>1, <2>2 DEF PairInv, TrustSaved, HostSaved
      <3>2. QED
        BY <3>1 DEF Trusts, GuestPeer
    <2>3. ASSUME NEW l \in Listen, link[l].guest = "trusts"
          PROVE  Trusts(Guest[link[l].who], Host[l])
      <3>1. "join-committed" \in sent[l]
        BY <1>1, <2>3 DEF PairInv, HandshakeOrder, InOrder
      <3>2. HostPeer(l) \in disk[Guest[link[l].who]].peers
        BY <1>1, <3>1 DEF PairInv, TrustSaved, GuestSaved
      <3>3. QED
        BY <3>2 DEF Trusts, HostPeer
    <2>4. ASSUME NEW c \in Join, command[c].step = "plain", NEW l \in Listen, link[l].who = c
          PROVE  wrote[l] = {}
      <3>1. link[l].guest = "plain"
        BY <1>1, <2>4 DEF PairInv, OneAttempt
      <3>2. QED
        BY <1>1, <3>1, NothingWritten
    <2>5. QED
      BY <1>1, <2>1, <2>2, <2>3, <2>4, NothingWritten DEF ReportsTruthful
  <1>2. QED
    BY <1>1, PairInvariant, PTL

\* "Paired" on either side means that both machines trust each other, under the
\* names they have.
THEOREM BothTrust == PairingSpec => []TrustConfirmed
  <1>1. ASSUME PairInv PROVE TrustConfirmed
    <2>1. SUFFICES ASSUME NEW l \in Listen, "ok" \in {link[l].host, link[l].guest}
                   PROVE  /\ Knows(Host[l], Guest[link[l].who])
                          /\ Knows(Guest[link[l].who], Host[l])
      BY DEF TrustConfirmed
    <2>2. InOrder(l) /\ GuestSaved(l) /\ HostSaved(l)
      BY <1>1 DEF PairInv, HandshakeOrder, TrustSaved
    <2>3. link[l].host \in {"ok", "trusts"}
      BY <2>1, <2>2 DEF InOrder
    <2>4. "join-committed" \in sent[l]
      BY <2>2, <2>3 DEF InOrder
    <2>5. QED
      BY <2>2, <2>3, <2>4 DEF GuestSaved, HostSaved, Knows, HostPeer, GuestPeer
  <1>2. QED
    BY <1>1, PairInvariant, PTL
=============================================================================
