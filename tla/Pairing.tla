------------------------------- MODULE Pairing -------------------------------
(***************************************************************************)
(* Pairing: the listeners of clix pair, the joiners of clix pair <phrase>, *)
(* the handshake that makes two machines trust each other, and what each   *)
(* side tells its owner.                                                   *)
(*                                                                         *)
(* A machine is its owner key. A pairing is not a distributed transaction: *)
(* the joiner saves first, the listener after it, and either may fail,     *)
(* time out, be renamed or crash at every await. Each listener serves one  *)
(* connection, so the state of a connection is kept under its listener.    *)
(***************************************************************************)
EXTENDS Naturals, Sequences

CONSTANTS
  Machine,     \* machines, named by their owner keys
  Name,        \* machine names validate_name and refuse_command_name accept
  FirstName,   \* [Machine -> Name]: the names before any pairing
  Listen,      \* uses of clix pair; each prints a phrase of its own
  Host,        \* [Listen -> Machine]
  Join,        \* uses of clix pair <phrase>
  Guest,       \* [Join -> Machine]
  Typed,       \* [Join -> Listen]: whose phrase the owner types
  Route,       \* [Join -> Seq(Machine)]: the machines tailscale lists as online
  Called,      \* [Listen \cup Join -> Name \cup {NoName}]: what --name says, if anything
  NoListen, NoJoin, NoName,
  MaxFault     \* bound: crashes and failed saves

ASSUME PairingShape ==
  /\ FirstName \in [Machine -> Name]
  /\ Host \in [Listen -> Machine]
  /\ Guest \in [Join -> Machine]
  /\ Typed \in [Join -> Listen]
  /\ Route \in [Join -> Seq(Machine)]
  /\ Called \in [Listen \cup Join -> Name \cup {NoName}]
  /\ NoListen \notin Listen
  /\ NoJoin \notin Join
  /\ MaxFault \in Nat

Peer  == [name : Name, key : Machine]
Trust == [name : Name, peers : SUBSET Peer]

\* What the owner is told of an attempt that ended: it worked; nothing was
\* saved; this machine, the other one, or perhaps this one now trusts; or the
\* process ended and told nothing.
Report  == {"ok", "plain", "trusts", "remote", "maybe", "gone"}
Message == {"join-identity", "listen-identity", "join-committed", "listen-committed"}

Link == [host  : {"idle", "waiting", "open", "told", "saved"} \cup Report,
         guest : {"idle", "open", "checked", "saved"} \cup Report,
         who   : Join \cup {NoJoin},
         hostName : Name, guestName : Name]

Command == [step : {"idle", "dialling", "busy"} \cup Report, left : Seq(Machine)]

VARIABLES
  mem,      \* [Machine -> Trust]: name and peers behind the mutex
  disk,     \* [Machine -> Trust]: state.json
  stuck,    \* [Machine -> BOOLEAN]: Store::write_error is set
  waiter,   \* [Machine -> Listen \cup {NoListen}]: pair_tx
  link,     \* [Listen -> Link]: the handshake of a listener
  sent,     \* [Listen -> SUBSET Message]: what has left on its connection
  command,  \* [Join -> Command]: the loop of pair_join_any
  wrote,    \* history: the sides whose state.json an attempt changed
  faults

storeVars == <<mem, disk, stuck, faults>>
vars == <<mem, disk, stuck, waiter, link, sent, command, wrote, faults>>

Init ==
  /\ mem = [m \in Machine |-> [name |-> FirstName[m], peers |-> {}]]
  /\ disk = mem
  /\ stuck = [m \in Machine |-> FALSE]
  /\ waiter = [m \in Machine |-> NoListen]
  /\ link = [l \in Listen |->
               [host |-> "idle", guest |-> "idle", who |-> NoJoin,
                hostName |-> FirstName[Host[l]], guestName |-> FirstName[Host[l]]]]
  /\ sent = [l \in Listen |-> {}]
  /\ command = [c \in Join |-> [step |-> "idle", left |-> Route[c]]]
  /\ wrote = [l \in Listen |-> {}]
  /\ faults = 0

-----------------------------------------------------------------------------
(* The store *)

\* validate_store: names and identities tell the machines apart.
Valid(m, s) ==
  /\ \A p, q \in s.peers : p.name = q.name \/ p.key = q.key => p = q
  /\ \A p \in s.peers : p.name # s.name /\ p.key # m

Saved(m, next) ==
  /\ ~stuck[m]
  /\ mem' = [mem EXCEPT ![m] = next]
  /\ disk' = [disk EXCEPT ![m] = next]
  /\ UNCHANGED <<stuck, faults>>

SaveFailed(m, next) ==
  /\ ~stuck[m]
  /\ faults < MaxFault
  /\ disk' \in {disk, [disk EXCEPT ![m] = next]}
  /\ stuck' = [stuck EXCEPT ![m] = TRUE]
  /\ faults' = faults + 1
  /\ UNCHANGED mem

With(s, p) == [s EXCEPT !.peers = @ \cup {p}]

\* Mutant: looks a peer up by its identity only.
AcceptableByKey(m, p) == \A q \in mem[m].peers : q.key = p.key => q = p

\* update_peer: the peer is known as it is, or new in name and identity.
Acceptable(m, p) == Valid(m, With(mem[m], p))

\* apply_body_name, before either command.
Renamable(m, n) == n \in {NoName, mem[m].name} \/ mem[m].peers = {}

Renamed(m, n) == IF n = NoName THEN mem[m] ELSE [mem[m] EXCEPT !.name = n]

-----------------------------------------------------------------------------
(* The commands *)

\* rpc_pair_start. The new waiter takes the place of an earlier one, whose
\* owner is told "pair cancelled".
PairStart(l) ==
  LET m == Host[l]
      n == Called[l] IN
  /\ link[l].host = "idle"
  /\ Renamable(m, n)
  /\ \/ /\ Saved(m, Renamed(m, n))
        /\ waiter' = [waiter EXCEPT ![m] = l]
        /\ link' = [k \in Listen |->
                      IF k = l THEN [link[k] EXCEPT !.host = "waiting"]
                      ELSE IF k = waiter[m] THEN [link[k] EXCEPT !.host = "plain"]
                      ELSE link[k]]
     \/ SaveFailed(m, Renamed(m, n)) /\ UNCHANGED <<waiter, link>>
  /\ UNCHANGED <<sent, command, wrote>>

\* rpc_pair_join.
PairJoin(c) ==
  LET m == Guest[c]
      n == Called[c] IN
  /\ command[c].step = "idle"
  /\ Renamable(m, n)
  /\ \/ /\ Saved(m, Renamed(m, n))
        /\ command' = [command EXCEPT ![c].step = "dialling"]
     \/ SaveFailed(m, Renamed(m, n)) /\ UNCHANGED command
  /\ UNCHANGED <<waiter, link, sent, wrote>>

\* The next machine answers and has a waiter, which is taken by this stream.
\* Both sides capture their identity, and the joiner sends its own.
Dial(c) ==
  /\ command[c].step = "dialling"
  /\ command[c].left # <<>>
  /\ LET m == Head(command[c].left)
         l == waiter[m] IN
     /\ l # NoListen
     /\ m # Guest[c]
     /\ waiter' = [waiter EXCEPT ![m] = NoListen]
     /\ link' = [link EXCEPT ![l] =
                   [host |-> "open", guest |-> "open", who |-> c,
                    hostName |-> mem[m].name, guestName |-> mem[Guest[c]].name]]
     /\ sent' = [sent EXCEPT ![l] = {"join-identity"}]
  /\ command' = [command EXCEPT ![c] = [step |-> "busy", left |-> Tail(@.left)]]
  /\ UNCHANGED <<storeVars, wrote>>

\* It does not answer in time, or nobody waits there.
Skip(c) ==
  /\ command[c].step = "dialling"
  /\ command[c].left # <<>>
  /\ command' = [command EXCEPT ![c].left = Tail(@)]
  /\ UNCHANGED <<storeVars, waiter, link, sent, wrote>>

GiveUp(c) ==
  /\ command[c].step = "dialling"
  /\ command[c].left = <<>>
  /\ command' = [command EXCEPT ![c].step = "plain"]
  /\ UNCHANGED <<storeVars, waiter, link, sent, wrote>>

-----------------------------------------------------------------------------
(* handshake_listen and handshake_join *)

HostPeer(l)  == [name |-> link[l].hostName, key |-> Host[l]]
GuestPeer(l) == [name |-> link[l].guestName, key |-> Guest[link[l].who]]

\* Mutant: an attempt that failed is followed by the next one.
CarriesOn(c, report) ==
  command' = [command EXCEPT ![c].step = IF report = "ok" THEN report ELSE "dialling"]

\* join_attempt has ended. pair_join_any goes on to the next machine only if no
\* trust may exist.
Ends(c, report) ==
  command' = [command EXCEPT ![c].step = IF report = "plain" THEN "dialling" ELSE report]

Go(l, side, step, message) ==
  /\ link' = IF side = "host" THEN [link EXCEPT ![l].host = step]
                              ELSE [link EXCEPT ![l].guest = step]
  /\ sent' = [sent EXCEPT ![l] = @ \cup message]
  /\ IF side = "guest" /\ step \in Report THEN Ends(link[l].who, step)
                                          ELSE UNCHANGED command
  /\ UNCHANGED waiter

\* The joiner's identity is authentic only under the phrase of this listener.
\* From here on the joiner may save this machine.
HostReply(l) ==
  /\ link[l].host = "open"
  /\ IF Typed[link[l].who] = l /\ Acceptable(Host[l], GuestPeer(l))
     THEN Go(l, "host", "told", {"listen-identity"})
     ELSE Go(l, "host", "plain", {})
  /\ UNCHANGED <<storeVars, wrote>>

GuestCheck(l) ==
  /\ link[l].guest = "open"
  /\ "listen-identity" \in sent[l]
  /\ Go(l, "guest", IF Acceptable(Guest[link[l].who], HostPeer(l)) THEN "checked" ELSE "plain", {})
  /\ UNCHANGED <<storeVars, wrote>>

\* Mutant: does not look whether the machine was renamed meanwhile.
SameAnyway(m, name) == TRUE

Same(m, name) == mem[m].name = name

\* persist_peer, with the peer checked again under the lock. Refused after a
\* rename; otherwise noted before the save, which may leave the new file on disk
\* although it fails.
Persist(m, name, peer, l, side) ==
  \/ /\ ~Same(m, name)
     /\ Go(l, side, IF side = "host" THEN "remote" ELSE "plain", {})
     /\ UNCHANGED <<storeVars, wrote>>
  \/ /\ Same(m, name)
     /\ stuck[m] \/ ~Acceptable(m, peer)
     /\ Go(l, side, "maybe", {})
     /\ UNCHANGED <<storeVars, wrote>>
  \/ /\ Same(m, name)
     /\ Acceptable(m, peer)
     /\ Saved(m, With(mem[m], peer))
     /\ Go(l, side, "saved", IF side = "guest" THEN {"join-committed"} ELSE {})
     /\ wrote' = [wrote EXCEPT ![l] = @ \cup {side}]
  \/ /\ Same(m, name)
     /\ Acceptable(m, peer)
     /\ SaveFailed(m, With(mem[m], peer))
     /\ Go(l, side, "maybe", {})
     /\ wrote' = IF disk' = disk THEN wrote ELSE [wrote EXCEPT ![l] = @ \cup {side}]

GuestSave(l) ==
  /\ link[l].guest = "checked"
  /\ Persist(Guest[link[l].who], link[l].guestName, HostPeer(l), l, "guest")

HostSave(l) ==
  /\ link[l].host = "told"
  /\ "join-committed" \in sent[l]
  /\ Persist(Host[l], link[l].hostName, GuestPeer(l), l, "host")

HostAck(l) ==
  /\ link[l].host = "saved"
  /\ Go(l, "host", "ok", {"listen-committed"})
  /\ UNCHANGED <<storeVars, wrote>>

GuestDone(l) ==
  /\ link[l].guest = "saved"
  /\ "listen-committed" \in sent[l]
  /\ Go(l, "guest", "ok", {})
  /\ UNCHANGED <<storeVars, wrote>>

\* A lost connection or 30 seconds, at any await. The last message may have
\* left although its sender gave up.
HostFail(l) ==
  /\ \/ link[l].host = "open"  /\ Go(l, "host", "plain", {})
     \/ link[l].host = "told"  /\ Go(l, "host", "remote", {})
     \/ link[l].host = "saved" /\ \E m \in {{}, {"listen-committed"}} : Go(l, "host", "trusts", m)
  /\ UNCHANGED <<storeVars, wrote>>

GuestFail(l) ==
  /\ \/ link[l].guest = "open"  /\ Go(l, "guest", "plain", {})
     \/ link[l].guest = "saved" /\ Go(l, "guest", "trusts", {})
  /\ UNCHANGED <<storeVars, wrote>>

\* The process ends and is started again; its attempts end with it.
Reboot(m) ==
  /\ faults < MaxFault
  /\ mem' = [mem EXCEPT ![m] = disk[m]]
  /\ stuck' = [stuck EXCEPT ![m] = FALSE]
  /\ waiter' = [waiter EXCEPT ![m] = NoListen]
  /\ link' = [l \in Listen |->
       [link[l] EXCEPT
          !.host  = IF Host[l] = m /\ @ \in {"waiting", "open", "told", "saved"}
                    THEN "gone" ELSE @,
          !.guest = IF @ \in {"open", "checked", "saved"} /\ Guest[link[l].who] = m
                    THEN "gone" ELSE @]]
  /\ command' = [c \in Join |->
       IF Guest[c] = m /\ command[c].step \in {"dialling", "busy"}
       THEN [command[c] EXCEPT !.step = "gone"] ELSE command[c]]
  /\ faults' = faults + 1
  /\ UNCHANGED <<disk, sent, wrote>>

-----------------------------------------------------------------------------

Next ==
  \/ \E c \in Join : PairJoin(c) \/ Dial(c) \/ Skip(c) \/ GiveUp(c)
  \/ \E l \in Listen : \/ PairStart(l) \/ HostReply(l) \/ HostSave(l) \/ HostAck(l) \/ HostFail(l)
                       \/ GuestCheck(l) \/ GuestSave(l) \/ GuestDone(l) \/ GuestFail(l)
  \/ \E m \in Machine : Reboot(m)

PairingSpec == Init /\ [][Next]_vars

=============================================================================
