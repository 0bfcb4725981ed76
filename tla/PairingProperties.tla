-------------------------- MODULE PairingProperties --------------------------
(***************************************************************************)
(* What a pairing promises to the two owners.                              *)
(***************************************************************************)
EXTENDS Pairing

PairTypes ==
  /\ mem \in [Machine -> Trust]
  /\ disk \in [Machine -> Trust]
  /\ stuck \in [Machine -> BOOLEAN]
  /\ waiter \in [Machine -> Listen \cup {NoListen}]
  /\ link \in [Listen -> Link]
  /\ sent \in [Listen -> SUBSET Message]
  /\ command \in [Join -> Command]
  /\ wrote \in [Listen -> SUBSET {"host", "guest"}]
  /\ faults \in Nat

\* The state is well typed, and a phrase that waits for a stream has served none.
PairTypeOK ==
  /\ PairTypes
  /\ \A m \in Machine : waiter[m] # NoListen =>
       /\ Host[waiter[m]] = m
       /\ link[waiter[m]].host = "waiting"
  /\ \A l \in Listen :
       link[l].who = NoJoin =>
         /\ link[l].host \in {"idle", "waiting", "plain", "gone"}
         /\ link[l].guest = "idle"
         /\ sent[l] = {}
         /\ wrote[l] = {}

\* A name and an identity each mean one machine, on every machine, however many
\* pairings it takes part in at once: validate_peer looks before the other side
\* has answered, and what it saw may have changed when persist_peer saves.
Unambiguous ==
  \A m \in Machine : Valid(m, mem[m]) /\ Valid(m, disk[m])

Trusts(m, k) == \E p \in disk[m].peers : p.key = k
Knows(m, k)  == [name |-> disk[k].name, key |-> k] \in disk[m].peers

\* "ok" on one side means that both machines have saved each other, and under
\* the names they have, though either may have been renamed by another command
\* during the handshake.
TrustConfirmed ==
  \A l \in Listen :
    "ok" \in {link[l].host, link[l].guest} =>
      LET h == Host[l]
          g == Guest[link[l].who]
      IN Knows(h, g) /\ Knows(g, h)

\* "a dropped acknowledgement never conceals a saved peer": whoever is told that
\* a pairing failed, and no more, has no machine that trusts another because of
\* it, nor will have; and what is said of this machine is so.
ReportsTruthful ==
  /\ \A l \in Listen :
       /\ "plain" \in {link[l].host, link[l].guest} => wrote[l] = {}
       /\ link[l].host = "remote" => "host" \notin wrote[l]
       /\ link[l].host = "trusts" => Trusts(Host[l], Guest[link[l].who])
       /\ link[l].guest = "trusts" => Trusts(Guest[link[l].who], Host[l])
  /\ \A c \in Join : command[c].step = "plain" =>
       \A l \in Listen : link[l].who = c => wrote[l] = {}

-----------------------------------------------------------------------------
(* What the invariants rest on: the parts of the inductive invariant *)

\* How far each side of a connection is, which messages have left, and what was
\* written.
InOrder(l) ==
  LET k == link[l] IN
  /\ k.host \in {"idle", "waiting", "open", "plain"} => "listen-identity" \notin sent[l]
  /\ k.guest \in {"checked", "saved", "ok", "trusts", "maybe"} => "listen-identity" \in sent[l]
  /\ "guest" \in wrote[l] => /\ k.guest \in {"saved", "ok", "trusts", "maybe", "gone"}
                             /\ "listen-identity" \in sent[l]
  /\ k.guest \in {"saved", "ok", "trusts"} => "join-committed" \in sent[l]
  /\ "join-committed" \in sent[l] => "guest" \in wrote[l]
  /\ k.host \in {"saved", "ok", "trusts"} \/ "host" \in wrote[l] => "join-committed" \in sent[l]
  /\ "host" \in wrote[l] => k.host \in {"saved", "ok", "trusts", "maybe", "gone"}
  /\ k.guest = "ok" => "listen-committed" \in sent[l]
  /\ "listen-committed" \in sent[l] => k.host \in {"ok", "trusts"}
  /\ k.host \in {"idle", "waiting"} => k.who = NoJoin
  /\ k.guest = "idle" => k.who = NoJoin

HandshakeOrder == \A l \in Listen : InOrder(l)

\* A command is in one attempt at a time; the earlier ones ended without trust.
OneAttempt ==
  \A c \in Join, l \in Listen : link[l].who = c =>
    /\ command[c].step \in {"dialling", "plain"} => link[l].guest = "plain"
    /\ command[c].step # "idle"
    /\ link[l].guest \in {"open", "checked", "saved"} =>
         /\ command[c].step = "busy"
         /\ \A k \in Listen : link[k].who = c /\ k # l => link[k].guest = "plain"

\* While saves work, memory is the disk.
InStep == \A m \in Machine : ~stuck[m] => mem[m] = disk[m]

\* What a side has saved is on its disk, under the names both had announced, and
\* a machine with a peer keeps its name.
GuestSaved(l) ==
  "join-committed" \in sent[l] =>
    /\ HostPeer(l) \in disk[Guest[link[l].who]].peers
    /\ disk[Guest[link[l].who]].name = link[l].guestName

HostSaved(l) ==
  link[l].host \in {"saved", "ok", "trusts"} =>
    /\ GuestPeer(l) \in disk[Host[l]].peers
    /\ disk[Host[l]].name = link[l].hostName

TrustSaved == InStep /\ \A l \in Listen : GuestSaved(l) /\ HostSaved(l)

\* Together with Unambiguous, which needs none of them, the inductive invariant.
PairInv == PairTypeOK /\ HandshakeOrder /\ OneAttempt /\ TrustSaved

=============================================================================
