------------------------ MODULE IdentityManagerProofs ------------------------
(***************************************************************************)
(* Proof about IdentityManager, for every set of identities: an IKE_SA     *)
(* asks for addresses under one name.  IpAllocator takes this for granted  *)
(* when it gives each unique_id its user (SessionAssumption).              *)
(***************************************************************************)
EXTENDS IdentityManager, FiniteSetTheorems, TLAPS

IdentityTypeOK ==
  /\ auth \in {"new", "identified", "eap", "done"}
  /\ id \in [Source -> Identity \cup {NULL}]

(* The name an address asked for now is leased under. *)
NameNow == IF identity_get_username = NULL THEN Anon ELSE identity_get_username

(* An EAP identity, once there is one, is what every later choice finds    *)
(* first, whether charon keeps it in the IKE_SA or in the auth_cfg too.    *)
IdentityInv ==
  /\ IdentityTypeOK
  /\ auth \in {"new", "identified"} => names = {}
  /\ auth # "done" => id["cfg_eap_identity"] = NULL
  /\ auth = "eap" => id["other_eap_id"] # NULL
  /\ names \in {{}, {NameNow}}

LEMMA IdentityInitOK == IdentityInit => IdentityInv
BY DEF IdentityInit, IdentityInv, IdentityTypeOK, Source

(* Until the EAP identity is known nothing has been asked for. *)
LEMMA ReceivedOK ==
  ASSUME IdentityInv, NEW i \in Identity, idi_received(i) \/ eap_identity_received(i)
  PROVE  IdentityInv'
<1>1. NULL \notin Identity
  BY IdentityAssumption
<1>2. IdentityTypeOK' /\ names = {} /\ names' = names
  BY DEF IdentityInv, IdentityTypeOK, idi_received, eap_identity_received
<1>3. auth' # "done" /\ id'["cfg_eap_identity"] = NULL
  BY DEF IdentityInv, IdentityTypeOK, Source, idi_received, eap_identity_received
<1>4. auth' = "eap" => id'["other_eap_id"] # NULL
  BY <1>1 DEF IdentityInv, IdentityTypeOK, Source, idi_received, eap_identity_received
<1>. QED  BY <1>2, <1>3, <1>4 DEF IdentityInv

(* The end of authentication copies the EAP identity to where it is looked *)
(* for first; the choice stays the same.                                   *)
LEMMA AuthenticatedOK == ASSUME IdentityInv, authenticated PROVE IdentityInv'
<1>1. IdentityTypeOK' /\ auth' = "done" /\ names' = names
  BY DEF IdentityInv, IdentityTypeOK, Source, authenticated
<1>2. CASE auth = "identified"
  BY <1>1, <1>2 DEF IdentityInv
<1>3. CASE auth = "eap"
  <2>1. Chosen = id["other_eap_id"] /\ Chosen' = id["other_eap_id"]
    BY <1>3 DEF IdentityInv, IdentityTypeOK, Source, authenticated, Chosen
  <2>2. NameNow' = NameNow
    BY <2>1 DEF NameNow, identity_get_username
  <2>. QED  BY <1>1, <2>2 DEF IdentityInv
<1>. QED  BY <1>2, <1>3 DEF authenticated

LEMMA AcquireNameOK == ASSUME IdentityInv, acquire_name PROVE IdentityInv'
<1>1. NameNow' = NameNow /\ names' = names \cup {NameNow}
  BY DEF acquire_name, NameNow, identity_get_username, Chosen
<1>2. names' = {NameNow'}
  BY <1>1 DEF IdentityInv
<1>. QED  BY <1>2 DEF IdentityInv, IdentityTypeOK, acquire_name

(* One name per IKE_SA, in whatever order charon learns the identities and *)
(* whenever addresses are asked for.                                       *)
THEOREM OneName == IdentitySpec => []OneNamePerSa
<1>1. IdentityInv /\ [IdentityNext]_identityVars => IdentityInv'
  <2>1. CASE UNCHANGED identityVars
    BY <2>1 DEF identityVars, IdentityInv, IdentityTypeOK, NameNow,
                identity_get_username, Chosen
  <2>. QED  BY <2>1, ReceivedOK, AuthenticatedOK, AcquireNameOK DEF IdentityNext
<1>2. IdentityInv => OneNamePerSa
  <2>1. Cardinality({}) = 0 /\ Cardinality({NameNow}) = 1
    BY FS_EmptySet, FS_Singleton
  <2>. QED  BY <2>1 DEF IdentityInv, OneNamePerSa
<1>. QED  BY <1>1, <1>2, IdentityInitOK, PTL DEF IdentitySpec
=============================================================================
