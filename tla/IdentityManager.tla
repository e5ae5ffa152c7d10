--------------------------- MODULE IdentityManager ---------------------------
(***************************************************************************)
(* plugin/src/identity_manager.c and its caller, acquire_address: under    *)
(* which name an IKE_SA gets its lease.  charon learns the identities of   *)
(* a peer one after the other, so the same function may answer differently *)
(* at different times; IpAllocator relies on one answer per IKE_SA.        *)
(*                                                                         *)
(* The four places an identity is looked for are those that                *)
(* identity_manager.c:15-18 describes, filled in the order it describes.   *)
(***************************************************************************)
EXTENDS Naturals, FiniteSets, Pointers

CONSTANTS
  StringId,    (* identities of a string type, each standing for its name *)
  OtherId,     (* identities of another type, or empty *)
  Anon         (* the placeholder name of the IKE_SA *)

Identity == StringId \cup OtherId

ASSUME IdentityAssumption ==
  /\ StringId \cap OtherId = {} /\ NULL \notin Identity
  /\ Anon \notin Identity /\ Anon # NULL

Source == {"cfg_eap_identity", "other_eap_id", "cfg_identity", "other_id"}

VARIABLES
  auth,        (* how far authentication is: new, identified, eap, done *)
  id,          (* what each source yields, or NULL *)
  names        (* the names acquire_address has used *)

identityVars == <<auth, id, names>>

IdentityInit ==
  /\ auth = "new"
  /\ id = [x \in Source |-> NULL]
  /\ names = {}

(* charon: the peer's IDi, its EAP identity if it is asked for one, and    *)
(* the end of authentication.                                              *)
idi_received(i) ==
  /\ auth = "new"
  /\ auth' = "identified"
  /\ id' = [id EXCEPT !["cfg_identity"] = i, !["other_id"] = i]
  /\ UNCHANGED names

eap_identity_received(i) ==
  /\ auth = "identified"
  /\ auth' = "eap"
  /\ id' = [id EXCEPT !["other_eap_id"] = i]
  /\ UNCHANGED names

authenticated ==
  /\ auth \in {"identified", "eap"}
  /\ auth' = "done"
  /\ id' = [id EXCEPT !["cfg_eap_identity"] = id["other_eap_id"]]
  /\ UNCHANGED names

(* Faulty: the second source is not tried. *)
Chosen_NotEapId ==
  CASE id["cfg_eap_identity"] # NULL -> id["cfg_eap_identity"]
    [] id["cfg_eap_identity"] = NULL /\ id["cfg_identity"] # NULL -> id["cfg_identity"]
    [] OTHER -> id["other_id"]

(* The first source that has an identity decides. *)
Chosen ==
  LET After(x, y) == IF x # NULL THEN x ELSE y
  IN  After(id["cfg_eap_identity"],
        After(id["other_eap_id"], After(id["cfg_identity"], id["other_id"])))

(* Only an identity of a string type gives a name. *)
identity_get_username == IF Chosen \in StringId THEN Chosen ELSE NULL

(* The name acquire_address goes on with, once charon knows the peer as    *)
(* well as it ever will: the EAP identity or that there is none.           *)
acquire_name ==
  /\ auth \in {"eap", "done"}
  /\ names' = names \cup {IF identity_get_username = NULL THEN Anon
                          ELSE identity_get_username}
  /\ UNCHANGED <<auth, id>>

IdentityNext ==
  \/ \E i \in Identity : idi_received(i) \/ eap_identity_received(i)
  \/ authenticated
  \/ acquire_name

IdentitySpec == IdentityInit /\ [][IdentityNext]_identityVars

-----------------------------------------------------------------------------
(* All addresses an IKE_SA asks for are leased under one name, although    *)
(* the sources fill while it asks: a second name would start a second      *)
(* lease under the same unique_id (ip_allocator.c:134).                    *)
OneNamePerSa == Cardinality(names) <= 1
=============================================================================
