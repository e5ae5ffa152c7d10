------------------------ MODULE SessionManagerProofs ------------------------
(***************************************************************************)
(* Proofs about SessionManager, for every set of unique_ids, users and     *)
(* chunks.  SessionInv is inductive; one lemma per operation states under  *)
(* which condition the operation keeps it, for callers to cite.            *)
(***************************************************************************)
EXTENDS SessionManager, TLAPS

SessionInv == SessionTypeOK /\ IndexesAgree /\ LeasesOfTheirUser

(* The empty table. *)
LEMMA SessionInitOK == SessionInit => SessionInv
BY SessionAssumption
   DEF SessionInit, SessionInv, SessionTypeOK, IndexesAgree, LeasesOfTheirUser

(* A step of somebody else. *)
LEMMA SessionUnchangedOK ==
  ASSUME SessionInv, UNCHANGED sessionVars PROVE SessionInv'
BY DEF SessionInv, SessionTypeOK, IndexesAgree, LeasesOfTheirUser, sessionVars

(* A bound lease is filed once in each index. *)
LEMMA FiledOnce ==
  ASSUME SessionInv
  PROVE  /\ \A n \in Uid : by_uid[n] # NULL =>
              /\ by_uid[n] \in Chunk /\ heap[by_uid[n]] \in Lease
              /\ heap[by_uid[n]].unique_id = n
              /\ heap[by_uid[n]].username = UserOf[n]
              /\ by_user[UserOf[n]] = by_uid[n]
         /\ \A u \in User : by_user[u] # NULL =>
              /\ by_user[u] \in Chunk /\ heap[by_user[u]] \in Lease
              /\ heap[by_user[u]].username = u
              /\ heap[by_user[u]].unique_id \in Uid
              /\ by_uid[heap[by_user[u]].unique_id] = by_user[u]
              /\ UserOf[heap[by_user[u]].unique_id] = u
BY SessionAssumption
   DEF SessionInv, SessionTypeOK, IndexesAgree, LeasesOfTheirUser, Lease

(* bind_lease without memory: the user's old lease is gone from both indexes. *)
LEMMA BindFailsOK ==
  ASSUME SessionInv, NEW u \in User, bind_lease_fails(u)
  PROVE  /\ SessionInv' /\ by_user'[u] = NULL
         /\ Bound' \subseteq Bound
         /\ by_user[u] = NULL => heap' = heap
<1>1. SessionTypeOK'
  BY DEF SessionInv, SessionTypeOK, bind_lease_fails, HeapWithout, UidsWithout
<1>2. ASSUME NEW n \in Uid, by_uid'[n] # NULL
      PROVE  /\ by_uid'[n] = by_uid[n] /\ UserOf[n] # u
             /\ heap'[by_uid'[n]] = heap[by_uid[n]]
             /\ by_user'[UserOf[n]] = by_user[UserOf[n]]
  <2>1. by_uid'[n] = by_uid[n] /\ by_uid[n] # NULL
    BY <1>2 DEF bind_lease_fails, UidsWithout
  <2>2. UserOf[n] # u
    BY <1>2, <2>1, FiledOnce DEF bind_lease_fails, UidsWithout
  <2>3. by_uid[n] # by_user[u] /\ by_uid[n] \in Chunk
    BY <2>1, <2>2, FiledOnce
  <2>. QED  BY <2>1, <2>2, <2>3, SessionAssumption
            DEF bind_lease_fails, HeapWithout, SessionInv, SessionTypeOK
<1>3. ASSUME NEW w \in User, by_user'[w] # NULL
      PROVE  /\ w # u /\ by_user'[w] = by_user[w]
             /\ heap'[by_user'[w]] = heap[by_user[w]]
             /\ by_uid'[heap[by_user[w]].unique_id] = by_uid[heap[by_user[w]].unique_id]
  <2>1. w # u /\ by_user'[w] = by_user[w]
    BY <1>3 DEF bind_lease_fails, SessionInv, SessionTypeOK
  <2>2. by_user[w] # by_user[u] /\ by_user[w] \in Chunk
    BY <1>3, <2>1, FiledOnce
  <2>3. by_user[u] # NULL => heap[by_user[w]].unique_id # heap[by_user[u]].unique_id
    BY <1>3, <2>1, <2>2, FiledOnce
  <2>4. heap[by_user[w]].unique_id \in Uid
    BY <1>3, <2>1, FiledOnce
  <2>. QED  BY <2>1, <2>2, <2>3, <2>4 DEF bind_lease_fails, HeapWithout, UidsWithout
<1>4. IndexesAgree'
  <2>1. ASSUME NEW n \in Uid, by_uid'[n] # NULL
        PROVE  /\ heap'[by_uid'[n]] # NULL /\ heap'[by_uid'[n]].unique_id = n
               /\ by_user'[heap'[by_uid'[n]].username] = by_uid'[n]
    BY <2>1, <1>2, FiledOnce, SessionAssumption
  <2>2. ASSUME NEW w \in User, by_user'[w] # NULL
        PROVE  /\ heap'[by_user'[w]] # NULL /\ heap'[by_user'[w]].username = w
               /\ by_uid'[heap'[by_user'[w]].unique_id] = by_user'[w]
    BY <2>2, <1>3, FiledOnce, SessionAssumption
  <2>. QED  BY <2>1, <2>2 DEF IndexesAgree
<1>5. LeasesOfTheirUser'
  BY <1>2, FiledOnce DEF LeasesOfTheirUser
<1>6. by_user'[u] = NULL
  BY DEF bind_lease_fails, SessionInv, SessionTypeOK
<1>7. Bound' \subseteq Bound
  BY <1>2, SessionAssumption DEF Bound
<1>8. by_user[u] = NULL => heap' = heap
  BY SessionAssumption DEF bind_lease_fails, HeapWithout, SessionInv, SessionTypeOK
<1>. QED  BY <1>1, <1>4, <1>5, <1>6, <1>7, <1>8 DEF SessionInv

(* bind_lease: the new lease is filed in both indexes, others are untouched. *)
LEMMA BindOK ==
  ASSUME SessionInv, NEW n \in Uid, NEW a \in LeaseIp, NEW fx \in BOOLEAN, NEW l \in Chunk,
         bind_lease(UserOf[n], n, a, fx, l)
  PROVE  /\ SessionInv'
         /\ by_uid'[n] = l /\ by_user'[UserOf[n]] = l
         /\ heap'[l] = lease_create(UserOf[n], n, a, fx)
         /\ Bound' \subseteq Bound \cup {l}
         /\ by_user[UserOf[n]] = NULL =>
              heap[l] = NULL /\ \A k \in Chunk \ {l} : heap'[k] = heap[k]
<1>. DEFINE u == UserOf[n]
<1>0. u \in User
  BY SessionAssumption
<1>1. lease_create(u, n, a, fx) \in Lease
  BY <1>0 DEF lease_create, Lease
<1>2. SessionTypeOK'
  BY <1>0, <1>1 DEF SessionInv, SessionTypeOK, bind_lease, HeapWithout, UidsWithout
<1>3. /\ by_uid'[n] = l /\ by_user'[u] = l
      /\ heap'[l] = lease_create(u, n, a, fx)
  BY <1>0 DEF bind_lease, SessionInv, SessionTypeOK, HeapWithout, UidsWithout
<1>. HIDE DEF u
<1>8. /\ heap'[l] # NULL /\ heap'[l].unique_id = n /\ heap'[l].username = u
  <2>1. heap'[l] # NULL
    BY <1>1, <1>3, SessionAssumption
  <2>. QED  BY <1>3, <2>1 DEF lease_create
<1>4. ASSUME NEW m \in Uid, m # n, by_uid'[m] # NULL
      PROVE  /\ by_uid'[m] = by_uid[m] /\ UserOf[m] # u
             /\ heap'[by_uid'[m]] = heap[by_uid[m]]
             /\ by_user'[UserOf[m]] = by_user[UserOf[m]]
  <2>1. by_uid'[m] = by_uid[m] /\ by_uid[m] # NULL
    BY <1>4 DEF bind_lease, UidsWithout, u
  <2>2. UserOf[m] # u
    BY <1>0, <1>4, <2>1, FiledOnce DEF bind_lease, UidsWithout, u
  <2>3. by_uid[m] # by_user[u] /\ by_uid[m] \in Chunk /\ heap[by_uid[m]] # NULL
    BY <1>0, <2>1, <2>2, FiledOnce, SessionAssumption
  <2>4. by_uid[m] # l
    BY <2>3 DEF bind_lease, HeapWithout, u
  <2>. QED  BY <2>1, <2>2, <2>3, <2>4, SessionAssumption
            DEF bind_lease, HeapWithout, SessionInv, SessionTypeOK, u
<1>5. ASSUME NEW w \in User, w # u, by_user'[w] # NULL
      PROVE  /\ by_user'[w] = by_user[w]
             /\ heap'[by_user'[w]] = heap[by_user[w]]
             /\ by_uid'[heap[by_user[w]].unique_id] = by_uid[heap[by_user[w]].unique_id]
  <2>1. by_user'[w] = by_user[w]
    BY <1>5 DEF bind_lease, SessionInv, SessionTypeOK, u
  <2>2. /\ by_user[w] # by_user[u] /\ by_user[w] \in Chunk
        /\ heap[by_user[w]] # NULL
    BY <1>0, <1>5, <2>1, FiledOnce, SessionAssumption
  <2>3. by_user[w] # l
    BY <2>2 DEF bind_lease, HeapWithout, u
  <2>4. by_user[u] # NULL => heap[by_user[w]].unique_id # heap[by_user[u]].unique_id
    BY <1>0, <1>5, <2>1, <2>2, FiledOnce
  <2>5. heap[by_user[w]].unique_id \in Uid /\ heap[by_user[w]].unique_id # n
    BY <1>5, <2>1, FiledOnce DEF u
  <2>. QED  BY <2>1, <2>2, <2>3, <2>4, <2>5
            DEF bind_lease, HeapWithout, UidsWithout, SessionInv, SessionTypeOK, u
<1>6. IndexesAgree'
  <2>1. ASSUME NEW m \in Uid, by_uid'[m] # NULL
        PROVE  /\ heap'[by_uid'[m]] # NULL /\ heap'[by_uid'[m]].unique_id = m
               /\ by_user'[heap'[by_uid'[m]].username] = by_uid'[m]
    <3>1. CASE m = n
      BY <3>1, <1>3, <1>8
    <3>2. CASE m # n
      BY <3>2, <2>1, <1>4, FiledOnce, SessionAssumption
    <3>. QED  BY <3>1, <3>2
  <2>2. ASSUME NEW w \in User, by_user'[w] # NULL
        PROVE  /\ heap'[by_user'[w]] # NULL /\ heap'[by_user'[w]].username = w
               /\ by_uid'[heap'[by_user'[w]].unique_id] = by_user'[w]
    <3>1. CASE w = u
      BY <3>1, <1>3, <1>8
    <3>2. CASE w # u
      BY <3>2, <2>2, <1>5, FiledOnce, SessionAssumption
    <3>. QED  BY <3>1, <3>2
  <2>. QED  BY <2>1, <2>2 DEF IndexesAgree
<1>7. LeasesOfTheirUser'
  BY <1>3, <1>4, <1>8, FiledOnce DEF LeasesOfTheirUser, u
<1>9. Bound' \subseteq Bound \cup {l}
  <2>1. \A m \in Uid : by_uid'[m] # NULL => m = n \/ by_uid'[m] = by_uid[m]
    BY <1>4
  <2>. QED  BY <1>3, <2>1, SessionAssumption DEF Bound
<1>10. by_user[u] = NULL =>
         heap[l] = NULL /\ \A k \in Chunk \ {l} : heap'[k] = heap[k]
  BY SessionAssumption DEF bind_lease, HeapWithout, u, SessionInv, SessionTypeOK
<1>. QED  BY <1>2, <1>3, <1>6, <1>7, <1>9, <1>10 DEF SessionInv, u

(* migrate: the user's lease is filed under the new unique_id only. *)
LEMMA MigrateOK ==
  ASSUME SessionInv, NEW n \in Uid, migrate(UserOf[n], n)
  PROVE  /\ SessionInv'
         /\ by_user' = by_user /\ Bound' \subseteq Bound
         /\ by_user[UserOf[n]] # NULL => by_uid'[n] = by_user[UserOf[n]]
         /\ \A k \in Chunk : /\ heap'[k] = NULL <=> heap[k] = NULL
                            /\ heap'[k].ip = heap[k].ip /\ heap'[k].fixed = heap[k].fixed
<1>. DEFINE u == UserOf[n]  l == by_user[u]
<1>0. u \in User
  BY SessionAssumption
<1>1. CASE l = NULL
  BY <1>1, SessionUnchangedOK DEF migrate, sessionVars, Bound
<1>2. CASE l # NULL
  <2>0. /\ l \in Chunk /\ heap[l] \in Lease /\ heap[l].username = u
        /\ heap[l].unique_id \in Uid /\ by_uid[heap[l].unique_id] = l
    BY <1>0, <1>2, FiledOnce
  <2>1. /\ by_uid' = [[by_uid EXCEPT ![heap[l].unique_id] = NULL] EXCEPT ![n] = l]
        /\ heap' = [heap EXCEPT ![l] = [@ EXCEPT !.unique_id = n, !.expired = FALSE]]
        /\ by_user' = by_user
    BY <1>2 DEF migrate
  <2>2. [heap[l] EXCEPT !.unique_id = n, !.expired = FALSE] \in Lease
    BY <2>0 DEF Lease
  <2>. HIDE DEF l, u
  <2>3. /\ SessionTypeOK' /\ by_uid'[n] = l /\ heap'[l] \in Lease
    BY <2>0, <2>1, <2>2 DEF SessionInv, SessionTypeOK
  <2>4. heap'[l].unique_id = n /\ heap'[l].username = u
    BY <2>0, <2>1 DEF SessionInv, SessionTypeOK, Lease
  <2>5. ASSUME NEW m \in Uid, m # n, by_uid'[m] # NULL
        PROVE  by_uid'[m] = by_uid[m] /\ by_uid[m] # l /\ heap'[by_uid[m]] = heap[by_uid[m]]
    <3>1. m # heap[l].unique_id /\ by_uid'[m] = by_uid[m] /\ by_uid[m] # NULL
      BY <2>0, <2>1, <2>5 DEF SessionInv, SessionTypeOK
    <3>2. by_uid[m] # l /\ by_uid[m] \in Chunk
      BY <3>1, FiledOnce
    <3>. QED  BY <2>1, <3>1, <3>2 DEF SessionInv, SessionTypeOK
  <2>6. ASSUME NEW w \in User, w # u, by_user[w] # NULL
        PROVE  /\ by_user[w] # l /\ heap'[by_user[w]] = heap[by_user[w]]
               /\ by_uid'[heap[by_user[w]].unique_id] = by_user[w]
    <3>1. /\ by_user[w] # l /\ by_user[w] \in Chunk
          /\ heap[by_user[w]].unique_id \in Uid
          /\ by_uid[heap[by_user[w]].unique_id] = by_user[w]
      BY <2>0, <2>6, FiledOnce
    <3>2. heap[by_user[w]].unique_id # n /\ heap[by_user[w]].unique_id # heap[l].unique_id
      BY <2>0, <2>6, <3>1, FiledOnce DEF u
    <3>. QED  BY <2>1, <3>1, <3>2 DEF SessionInv, SessionTypeOK
  <2>7. IndexesAgree'
    <3>0. by_user' = by_user
      BY <2>1
    <3>1. ASSUME NEW m \in Uid, by_uid'[m] # NULL
          PROVE  /\ heap'[by_uid'[m]] # NULL /\ heap'[by_uid'[m]].unique_id = m
                 /\ by_user'[heap'[by_uid'[m]].username] = by_uid'[m]
      <4>1. CASE m = n
        BY <4>1, <2>1, <2>3, <2>4, SessionAssumption DEF l
      <4>2. CASE m # n
        BY <4>2, <3>0, <3>1, <2>5, FiledOnce, SessionAssumption
      <4>. QED  BY <4>1, <4>2
    <3>2. ASSUME NEW w \in User, by_user'[w] # NULL
          PROVE  /\ heap'[by_user'[w]] # NULL /\ heap'[by_user'[w]].username = w
                 /\ by_uid'[heap'[by_user'[w]].unique_id] = by_user'[w]
      <4>1. CASE w = u
        BY <4>1, <2>1, <2>3, <2>4, SessionAssumption DEF l
      <4>2. CASE w # u
        BY <4>2, <3>0, <3>2, <2>6, FiledOnce, SessionAssumption
      <4>. QED  BY <4>1, <4>2
    <3>. QED  BY <3>1, <3>2 DEF IndexesAgree
  <2>8. LeasesOfTheirUser'
    BY <2>3, <2>4, <2>5, FiledOnce DEF LeasesOfTheirUser, u
  <2>9. Bound' \subseteq Bound
    <3>1. \A m \in Uid : by_uid'[m] # NULL => m = n \/ by_uid'[m] = by_uid[m]
      BY <2>5
    <3>. QED  BY <2>0, <2>3, <3>1, SessionAssumption DEF Bound
  <2>10. heap' = [heap EXCEPT ![l] = heap'[l]]
    BY <2>0, <2>1 DEF SessionInv, SessionTypeOK
  <2>11. heap'[l].ip = heap[l].ip /\ heap'[l].fixed = heap[l].fixed
    BY <2>0, <2>1 DEF SessionInv, SessionTypeOK, Lease
  <2>12. \A k \in Chunk : /\ heap'[k] = NULL <=> heap[k] = NULL
                          /\ heap'[k].ip = heap[k].ip /\ heap'[k].fixed = heap[k].fixed
    BY <2>0, <2>3, <2>10, <2>11, SessionAssumption DEF SessionInv, SessionTypeOK
  <2>. QED  BY <2>1, <2>3, <2>7, <2>8, <2>9, <2>12 DEF SessionInv, l, u
<1>. QED  BY <1>1, <1>2

(* bind_lease for a user without a lease takes nothing from anybody else. *)
LEMMA BindAdds ==
  ASSUME SessionInv, NEW n \in Uid, NEW a \in LeaseIp, NEW fx \in BOOLEAN, NEW l \in Chunk,
         bind_lease(UserOf[n], n, a, fx, l), by_user[UserOf[n]] = NULL
  PROVE  /\ by_uid[n] = NULL /\ l \notin Bound
         /\ by_uid' = [by_uid EXCEPT ![n] = l]
         /\ by_user' = [by_user EXCEPT ![UserOf[n]] = l]
         /\ heap' = [heap EXCEPT ![l] = lease_create(UserOf[n], n, a, fx)]
         /\ Bound' = Bound \cup {l}
<1>1. by_uid[n] = NULL /\ UserOf[n] \in User
  BY FiledOnce, SessionAssumption
<1>2. HeapWithout(UserOf[n]) = heap /\ UidsWithout(UserOf[n]) = by_uid
  BY SessionAssumption DEF HeapWithout, UidsWithout, SessionInv, SessionTypeOK
<1>3. /\ heap[l] = NULL
      /\ by_uid' = [by_uid EXCEPT ![n] = l]
      /\ by_user' = [by_user EXCEPT ![UserOf[n]] = l]
      /\ heap' = [heap EXCEPT ![l] = lease_create(UserOf[n], n, a, fx)]
  BY <1>2 DEF bind_lease
<1>4. l \notin Bound
  BY <1>3, FiledOnce, SessionAssumption DEF Bound
<1>5. Bound' = Bound \cup {l}
  BY <1>1, <1>3, SessionAssumption DEF Bound, SessionInv, SessionTypeOK
<1>. QED  BY <1>1, <1>3, <1>4, <1>5

(* migrate moves the user's lease from one unique_id of the user to another. *)
LEMMA MigrateMoves ==
  ASSUME SessionInv, NEW n \in Uid, migrate(UserOf[n], n), by_user[UserOf[n]] # NULL
  PROVE  /\ \A m \in Uid : UserOf[m] # UserOf[n] => by_uid'[m] = by_uid[m]
         /\ by_uid[n] # NULL => by_uid[n] = by_user[UserOf[n]]
         /\ heap' = [heap EXCEPT ![by_user[UserOf[n]]] =
                       [@ EXCEPT !.unique_id = n, !.expired = FALSE]]
         /\ Bound' = Bound
<1>. DEFINE u == UserOf[n]  l == by_user[u]
<1>0. u \in User
  BY SessionAssumption
<1>1. /\ l \in Chunk /\ heap[l].unique_id \in Uid
      /\ by_uid[heap[l].unique_id] = l /\ UserOf[heap[l].unique_id] = u
  BY <1>0, FiledOnce
<1>2. /\ by_uid' = [[by_uid EXCEPT ![heap[l].unique_id] = NULL] EXCEPT ![n] = l]
      /\ heap' = [heap EXCEPT ![l] = [@ EXCEPT !.unique_id = n, !.expired = FALSE]]
  BY DEF migrate
<1>3. by_uid[n] # NULL => by_uid[n] = l
  BY FiledOnce
<1>4. by_uid'[n] = l
  BY <1>2 DEF SessionInv, SessionTypeOK
<1>5. \A m \in Uid : by_uid[m] # l /\ m # n => by_uid'[m] = by_uid[m]
  BY <1>1, <1>2 DEF SessionInv, SessionTypeOK
<1>6. \A m \in Uid : UserOf[m] # u => by_uid'[m] = by_uid[m]
  BY <1>1, <1>2 DEF SessionInv, SessionTypeOK
<1>7. Bound \subseteq Bound'
  <2>. SUFFICES ASSUME NEW m \in Uid, by_uid[m] # NULL
       PROVE  \E k \in Uid : by_uid'[k] = by_uid[m]
    BY SessionAssumption DEF Bound
  <2>1. CASE by_uid[m] = l
    BY <1>4, <2>1
  <2>2. CASE by_uid[m] # l
    BY <1>3, <1>5, <2>2
  <2>. QED  BY <2>1, <2>2
<1>. QED  BY <1>2, <1>3, <1>6, <1>7, MigrateOK

(* unbind: the lease leaves both indexes and stays allocated. *)
LEMMA UnbindOK ==
  ASSUME SessionInv, NEW n \in Uid, unbind(n)
  PROVE  /\ SessionInv' /\ heap' = heap
         /\ \A m \in Uid : by_uid'[m] = IF m = n THEN NULL ELSE by_uid[m]
         /\ \A u \in User :
              by_user'[u] = IF by_uid[n] # NULL /\ u = UserOf[n] THEN NULL ELSE by_user[u]
<1>1. CASE by_uid[n] = NULL
  BY <1>1, SessionUnchangedOK DEF unbind, sessionVars
<1>2. CASE by_uid[n] # NULL
  <2>1. heap[by_uid[n]].username = UserOf[n] /\ UserOf[n] \in User
    BY <1>2, FiledOnce, SessionAssumption
  <2>2. /\ by_uid' = [by_uid EXCEPT ![n] = NULL]
        /\ by_user' = [by_user EXCEPT ![UserOf[n]] = NULL]
        /\ heap' = heap
    BY <1>2, <2>1 DEF unbind
  <2>3. SessionTypeOK'
    BY <2>2 DEF SessionInv, SessionTypeOK
  <2>4. \A m \in Uid : by_uid'[m] # NULL => by_uid'[m] = by_uid[m] /\ UserOf[m] # UserOf[n]
    BY <1>2, <2>2, FiledOnce DEF SessionInv, SessionTypeOK
  <2>5. \A u \in User : by_user'[u] # NULL =>
           by_user'[u] = by_user[u] /\ heap[by_user[u]].unique_id # n
    BY <1>2, <2>1, <2>2, FiledOnce DEF SessionInv, SessionTypeOK
  <2>6. IndexesAgree'
    BY <2>2, <2>4, <2>5, FiledOnce, SessionAssumption
       DEF IndexesAgree, SessionInv, SessionTypeOK
  <2>7. LeasesOfTheirUser'
    BY <2>2, <2>4, FiledOnce DEF LeasesOfTheirUser
  <2>. QED  BY <1>2, <2>2, <2>3, <2>6, <2>7 DEF SessionInv, SessionTypeOK
<1>. QED  BY <1>1, <1>2

(* A lease may be freed when no unique_id leads to it. *)
LEMMA DestroyOK ==
  ASSUME SessionInv, NEW l \in Chunk, l \notin Bound, lease_destroy(l)
  PROVE  /\ SessionInv' /\ Bound' = Bound
         /\ \A k \in Chunk \ {l} : heap'[k] = heap[k]
<1>1. \A n \in Uid : by_uid[n] # l
  BY DEF Bound
<1>2. \A u \in User : by_user[u] # l
  BY <1>1, FiledOnce, SessionAssumption
<1>3. \A k \in Chunk : k # l => heap'[k] = heap[k]
  BY DEF lease_destroy, SessionInv, SessionTypeOK
<1>4. SessionTypeOK'
  BY DEF lease_destroy, SessionInv, SessionTypeOK
<1>5. IndexesAgree' /\ LeasesOfTheirUser'
  BY <1>1, <1>2, <1>3, FiledOnce, SessionAssumption
     DEF lease_destroy, IndexesAgree, LeasesOfTheirUser
<1>6. Bound' = Bound
  BY DEF lease_destroy, Bound
<1>. QED  BY <1>3, <1>4, <1>5, <1>6 DEF SessionInv

(* Time changes only the age of a lease. *)
LEMMA LeaseAgesOK ==
  ASSUME SessionInv, NEW l \in Chunk, LeaseAges(l)
  PROVE  /\ SessionInv'
         /\ \A k \in Chunk :
              /\ heap'[k] = NULL <=> heap[k] = NULL
              /\ heap[k] # NULL => /\ heap'[k].ip = heap[k].ip
                                   /\ heap'[k].fixed = heap[k].fixed
                                   /\ heap'[k].unique_id = heap[k].unique_id
                                   /\ heap'[k].username = heap[k].username
<1>1. heap[l] \in Lease /\ heap' = [heap EXCEPT ![l] = [heap[l] EXCEPT !.expired = TRUE]]
  BY DEF LeaseAges, SessionInv, SessionTypeOK
<1>2. [heap[l] EXCEPT !.expired = TRUE] \in Lease
  BY <1>1 DEF Lease
<1>3. SessionTypeOK'
  BY <1>1, <1>2 DEF LeaseAges, SessionInv, SessionTypeOK
<1>4. \A k \in Chunk :
        /\ heap'[k] = NULL <=> heap[k] = NULL
        /\ heap[k] # NULL => /\ heap'[k].ip = heap[k].ip
                             /\ heap'[k].fixed = heap[k].fixed
                             /\ heap'[k].unique_id = heap[k].unique_id
                             /\ heap'[k].username = heap[k].username
  BY <1>1, <1>2, SessionAssumption DEF Lease, SessionInv, SessionTypeOK
<1>5. IndexesAgree' /\ LeasesOfTheirUser'
  BY <1>4, FiledOnce, SessionAssumption DEF LeaseAges, IndexesAgree, LeasesOfTheirUser
<1>. QED  BY <1>3, <1>4, <1>5 DEF SessionInv

-----------------------------------------------------------------------------
(* The invariant holds of session_manager.c on its own, whatever order the *)
(* calls come in.                                                          *)
LEMMA SessionInvariant == SessionSpec => []SessionInv
<1>1. SessionInv /\ [SessionNext]_sessionVars => SessionInv'
  <2>. SUFFICES ASSUME SessionInv, [SessionNext]_sessionVars PROVE SessionInv'
    OBVIOUS
  <2>1. ASSUME NEW n \in Uid, NEW a \in LeaseIp, NEW fx \in BOOLEAN, NEW l \in Chunk,
               bind_lease(UserOf[n], n, a, fx, l)
        PROVE  SessionInv'
    BY <2>1, BindOK
  <2>2. ASSUME NEW n \in Uid, bind_lease_fails(UserOf[n]) PROVE SessionInv'
    BY <2>2, BindFailsOK, SessionAssumption
  <2>3. ASSUME NEW n \in Uid, migrate(UserOf[n], n) PROVE SessionInv'
    BY <2>3, MigrateOK
  <2>4. ASSUME NEW n \in Uid, unbind(n) PROVE SessionInv'
    BY <2>4, UnbindOK
  <2>5. ASSUME NEW l \in HandedOut, lease_destroy(l) PROVE SessionInv'
    BY <2>5, DestroyOK DEF HandedOut
  <2>6. ASSUME NEW l \in Chunk, LeaseAges(l) PROVE SessionInv'
    BY <2>6, LeaseAgesOK
  <2>. QED  BY <2>1, <2>2, <2>3, <2>4, <2>5, <2>6, SessionUnchangedOK DEF SessionNext
<1>. QED  BY <1>1, SessionInitOK, PTL DEF SessionSpec

(* The two indexes describe the same live leases. *)
THEOREM SessionIndexes == SessionSpec => []IndexesAgree
<1>1. SessionInv => IndexesAgree
  BY DEF SessionInv
<1>. QED  BY <1>1, SessionInvariant, PTL

(* Every lease is filed under a unique_id of its own user, however often   *)
(* it has moved from one IKE_SA to another.                                *)
THEOREM FiledUnderOwnUser == SessionSpec => []LeasesOfTheirUser
<1>1. SessionInv => LeasesOfTheirUser
  BY DEF SessionInv
<1>. QED  BY <1>1, SessionInvariant, PTL
=============================================================================
