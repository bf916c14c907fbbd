-------------------------------- MODULE Keyring --------------------------------
(***************************************************************************)
(* What OMEMO promises about devices and keys, as if no handler were ever  *)
(* stopped halfway: a device is written to because the user decided so,    *)
(* and a session we begin with it is the only thing that ends this; each   *)
(* one-time key is drawn once, for one identity, and opens one message     *)
(* while that identity lasts; a new identity leaves no key of the old one. *)
(* A stop of the program may cost a message, and nothing else.             *)
(***************************************************************************)
EXTENDS Naturals

CONSTANT Devices

VARIABLES
  known,       \* devices the user can decide on
  permitted,   \* those that may be written to
  paired,      \* those there is a session with
  generation,  \* the identity, 0 when there is none
  drawn,       \* how many keys it has drawn
  live,        \* keys that open a message
  spent        \* which device spent which key

devices     == <<known, permitted, paired>>
keys        == <<generation, drawn, live, spent>>
keyringVars == <<devices, keys>>

KeysOf(g, from, to) == {[gen |-> g, n |-> i] : i \in from..to}

KeyringInit ==
  /\ known = {} /\ permitted = {} /\ paired = {}
  /\ generation = 0 /\ drawn = 0 /\ live = {} /\ spent = {}

\* Devices become known; none of them may be written to for that.
Learn ==
  /\ known' \in SUBSET Devices /\ known \subseteq known'
  /\ UNCHANGED <<permitted, paired, keys>>

\* The user decides.
Permit(d) ==
  /\ d \in known /\ permitted' = permitted \cup {d}
  /\ UNCHANGED <<known, paired, keys>>

\* A session is begun with a device that is known.  Its user may have to be
\* asked again.
Begin(d) ==
  /\ generation # 0 /\ d \in known
  /\ paired' = paired \cup {d}
  /\ permitted' \in {permitted, permitted \ {d}}
  /\ UNCHANGED <<known, keys>>

\* A device begins one, by a key of ours.
Meet(d) ==
  /\ generation # 0
  /\ known' = known \cup {d} /\ paired' = paired \cup {d}
  /\ UNCHANGED <<permitted, generation>>

\* New keys, if any, join those of rest; they continue the numbering.
Drawn(rest) ==
  /\ drawn' \in Nat /\ drawn' >= drawn
  /\ live' = rest \cup KeysOf(generation, drawn + 1, drawn')

\* The message is read: its key is spent.
Open(d, k) ==
  /\ k \in live /\ \A s \in spent : s.key # k
  /\ Meet(d) /\ Drawn(live \ {k})
  /\ spent' = spent \cup {[dev |-> d, key |-> k]}

\* The message is lost; its key may be, too.
Miss(d, k) ==
  /\ k \in live
  /\ Meet(d) /\ live' \in {live, live \ {k}}
  /\ UNCHANGED <<drawn, spent>>

Draw ==
  /\ generation # 0 /\ Drawn(live)
  /\ UNCHANGED <<devices, generation, spent>>

\* A new identity.
Renew ==
  /\ generation' = generation + 1
  /\ drawn' \in Nat /\ live' = KeysOf(generation', 1, drawn')
  /\ UNCHANGED <<devices, spent>>

KeyringNext ==
  \/ Learn \/ Draw \/ Renew
  \/ \E d \in Devices : Permit(d) \/ Begin(d)
  \/ \E d \in Devices, k \in live : Open(d, k) \/ Miss(d, k)

KeyringSpec == KeyringInit /\ [][KeyringNext]_keyringVars
=============================================================================
