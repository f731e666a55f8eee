------------------------------ MODULE MCWorkspace ------------------------------
(* Instances of Workspace for TLC: two forms with different names and a     *)
(* third that shares one with each, two codes, users 1 and 2.               *)
EXTENDS Workspace, FiniteSets, TLC

CONSTANTS R1, R2, R3

AnnA == [username |-> "ann", email |-> "a"]
BobB == [username |-> "bob", email |-> "b"]
AnnB == [username |-> "ann", email |-> "b"]

MCIdentities == {AnnA, BobB, AnnB}

MCDefault == [enabled |-> TRUE, strategy |-> "default"]
Chosen == [enabled |-> TRUE, strategy |-> "chosen"]
Off == [enabled |-> FALSE, strategy |-> "default"]

MCSettings == {MCDefault, Chosen, Off}

MCUniverse == <<"s1", "s2">>

Create(i) == [kind |-> "create", identity |-> i]
Bootstrap(u, i, codes) == [kind |-> "bootstrap", user |-> u, identity |-> i, codes |-> codes]
ReadConfig(u) == [kind |-> "readConfig", user |-> u]
SaveConfig(u, s) == [kind |-> "saveConfig", user |-> u, settings |-> s]
Watch(u, c) == [kind |-> "watch", user |-> u, code |-> c]
Unwatch(u, c) == [kind |-> "unwatch", user |-> u, code |-> c]

AllRequests ==
  {Create(i) : i \in MCIdentities}
  \cup {Bootstrap(NoUser, AnnB, <<"s2">>), Bootstrap(1, BobB, <<"s1", "s1">>), Bootstrap(2, AnnA, <<"s1", "s2">>)}
  \cup {ReadConfig(1), SaveConfig(1, Chosen), SaveConfig(1, Off)}
  \cup {Watch(1, "s1"), Watch(2, "s2"), Unwatch(1, "s1")}
  \cup {[kind |-> "universe"]}

Symmetry == Permutations(Requests)
=============================================================================
