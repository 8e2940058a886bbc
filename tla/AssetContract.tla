---------------------------- MODULE AssetContract ----------------------------
(***************************************************************************)
(* What the provisioning engine promises for an asset as long as nothing   *)
(* goes wrong with it: one server at a time of its own, handed to its      *)
(* caller once, left alone until the asset is deleted, and gone with it.   *)
(* Where something did go wrong, what is promised is that it stays with    *)
(* that asset.                                                             *)
(***************************************************************************)
CONSTANTS Asset, Server, Null

VARIABLES
  phase,     \* how far the asset is
  attached,  \* the instance its caller has
  running,   \* the servers that exist
  made       \* the asset each server was created for

cvars == <<phase, attached, running, made>>

Phase == {"unknown", "pending", "served", "ending", "gone", "troubled"}

Own(a) == {s \in running : made[s] = a}
Move(a, from, to) == phase[a] \in from /\ phase' = [phase EXCEPT ![a] = to]

ContractInit ==
  /\ phase = [a \in Asset |-> "unknown"]
  /\ attached = [a \in Asset |-> Null]
  /\ running = {}
  /\ made = [s \in Server |-> Null]

(* The request is accepted. *)
Accept(a) == Move(a, {"unknown"}, "pending") /\ UNCHANGED <<attached, running, made>>

(* An attempt creates a server, for this asset only. *)
Build(a, s) ==
  /\ phase[a] = "pending" /\ made[s] = Null
  /\ running' = running \cup {s} /\ made' = [made EXCEPT ![s] = a]
  /\ UNCHANGED <<phase, attached>>

(* A server is deleted: that of a failed attempt, or of an asset being deleted,
   never one in service. *)
Scrap(a, s) ==
  /\ phase[a] \in {"pending", "ending"} /\ s \in Own(a)
  /\ running' = running \ {s}
  /\ UNCHANGED <<phase, attached, made>>

(* The caller is given a server: a running one made for the asset, the only one. *)
Serve(a, s) ==
  /\ Move(a, {"pending"}, "served") /\ Own(a) = {s}
  /\ attached' = [attached EXCEPT ![a] = s]
  /\ UNCHANGED <<running, made>>

(* Its deletion is accepted, or its caller refuses it. *)
Close(a) ==
  /\ Move(a, {"pending", "served"}, "ending")
  /\ UNCHANGED <<attached, running, made>>

(* The caller's instance is detached, before or after the record is removed. *)
Release(a) ==
  /\ phase[a] \in {"ending", "gone"}
  /\ attached' = [attached EXCEPT ![a] = Null]
  /\ UNCHANGED <<phase, running, made>>

(* The record is removed: nothing of the asset is left running. *)
Forget(a) ==
  /\ Move(a, {"ending"}, "gone") /\ Own(a) = {}
  /\ UNCHANGED <<attached, running, made>>

(* Something goes wrong with these assets, or went wrong before: no other loses a
   server or is given one, none has a server of another, and no server comes
   back or changes hands. *)
Suffer(as) ==
  /\ phase' = [a \in Asset |-> IF a \in as THEN "troubled" ELSE phase[a]]
  /\ attached' \in [Asset -> Server \cup {Null}]
  /\ \A a \in Asset \ as : attached'[a] = attached[a] /\ Own(a)' = Own(a)
  /\ \A a \in as : attached'[a] = Null \/ made'[attached'[a]] = a
  /\ \A s \in Server : made'[s] = made[s] \/ (made[s] = Null /\ made'[s] \in as)
  /\ \A s \in running' : s \in running \/ made[s] = Null

ContractNext ==
  \/ \E a \in Asset : Accept(a) \/ Close(a) \/ Release(a) \/ Forget(a)
  \/ \E a \in Asset, s \in Server : Build(a, s) \/ Scrap(a, s) \/ Serve(a, s)
  \/ \E as \in SUBSET Asset : Suffer(as)

ContractSpec == ContractInit /\ [][ContractNext]_cvars
=============================================================================
