---------------------------- MODULE MCNovaClient ----------------------------
(* Instances of the nova client and the compute double for TLC. *)
EXTENDS NovaClient, TLC

(* One group besides "default", asked for once, twice or not at all. *)
Named   == CHOOSE n \in GroupName : n # Default
OneName == {<<>>, <<Default, Named>>, <<Named, Named>>}

NoName  == {<<>>}

AllOps == (Reading \ {"Fallback"}) \cup Creates \cup OnGroup \cup OnIP \cup
          {"DeleteServer", "AllocateFloatingIP", "DeleteSecurityGroup",
           "DeleteSecurityGroupRule", "DeleteFloatingIP"}
AttachOps == {"RunServer", "AllocateFloatingIP", "AddServerFloatingIP"}

(* Groups and addresses have nothing to do with each other: a behaviour works
   with one server and groups, or with two servers and addresses.  A handler is
   one step, so it is enough that one caller is awake at a time while others
   sleep before they send again. *)
Asleep(c) == call[c].pc = "idle" \/ (call[c].pc = "sent" /\ call[c].attempt > 1)
Apart ==
  /\ \/ next.ip = 0 /\ next.server <= 1
     \/ next.group = 0 /\ next.rule = 0 /\ \A s \in ServerId : serverGroups[s] = {}
  /\ Cardinality({c \in Caller : ~Asleep(c)}) <= 1

Symmetry == Permutations(Caller)
=============================================================================
