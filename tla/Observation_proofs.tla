------------------------- MODULE Observation_proofs -------------------------
(***************************************************************************)
(* Theorems about Observation, for every set of shards, every width of a   *)
(* shard id and every set of forms of the node's status: what a heartbeat  *)
(* may lead and not host, that the two views of one assignment agree, and  *)
(* that a page agrees with itself.                                         *)
(***************************************************************************)
EXTENDS Observation, FiniteSetTheorems, TLAPS

\* The is_leader family drawn from a body.
LeaderFamily(body) == per_shard_families(body.rows).is_leader

\* A family that shows the node as it is but for the silent shards, and a
\* heartbeat that does.
ShowsNow(is_leader, silent) ==
    /\ Labels(is_leader) = Hosted \ silent
    /\ Showing(is_leader, 1) = With("leader") \ silent

Says(fields, silent, status) ==
    /\ {"leading", "rows"} \intersect fields # {} =>
           status.leading \ silent = u32_array(With("leader")) \ silent
    /\ {"hosted", "rows"} \intersect fields # {} =>
           status.hosted \ silent = u32_array(Hosted) \ silent

SaysNow(beat) == Says(beat.fields, beat.silent, beat.status)

\* What the loop has scraped, what the exporter has fetched and what it has
\* shown is no newer than the node, and true of it if nothing changed since.
RoleInv == role \in [Shards -> Roles] /\ version \in Nat

SummaryInv ==
    summary # None =>
        /\ summary.at \in 0 .. version
        /\ summary.at = version => SaysNow(summary)

ShardsInv ==
    pc # 0 =>
        /\ shardsAt \in 0 .. version
        /\ shardsAt = version =>
               ShowsNow(LeaderFamily(shardsBody), shardsBody.unresponsive_shards)

PageInv ==
    page # None =>
        /\ page.at \in 0 .. version
        /\ page.at = version =>
               ShowsNow(page.families.per_shard.is_leader, page.silent)

\* The two views of one assignment agree already before the page is written.
PendingAgrees ==
    summary # None /\ pc # 0 /\ summary.at = shardsAt =>
        Agree(summary, LeaderFamily(shardsBody), shardsBody.unresponsive_shards)

ViewInv ==
    /\ RoleInv
    /\ SummaryInv
    /\ ShardsInv
    /\ PageInv
    /\ PendingAgrees
    /\ TwoViewsAgree

-----------------------------------------------------------------------------
\* What the provers need to know of a row and of a set of rows.
LEMMA RowFields ==
    \A s, timed :
        /\ Row(s, timed).shard_id = s
        /\ Row(s, timed).role = role[s]
        /\ Row(s, timed).storage_healthy = (s \notin faulted)
        /\ Row(s, timed).append_rtt_ms_last = IF s \in timed THEN 1 ELSE Null
BY DEF Row

\* The family drawn from the node's rows shows the node as it is.
LEMMA RowsShowNow ==
    ASSUME RoleInv, NEW silent, NEW timed
    PROVE  ShowsNow(LeaderFamily(ShardsBody(silent, timed)), silent)
<1> DEFINE rows == Rows(silent, timed)
           present == Hosted \ silent
           family == {<<r.shard_id, bool_value(IsLeader(r))>> : r \in rows}
<1>1. LeaderFamily(ShardsBody(silent, timed)) = family
  BY DEF LeaderFamily, ShardsBody, per_shard_families
<1>2. ASSUME NEW y \in family
      PROVE  \E s \in present :
                 y = <<s, IF role[s] = "leader" THEN 1 ELSE 0>>
  <2>1. PICK r \in rows : y = <<r.shard_id, bool_value(IsLeader(r))>>
    OBVIOUS
  <2>2. PICK s \in present : r = Row(s, timed)
    BY DEF Rows
  <2> QED
    BY <2>1, <2>2, RowFields DEF IsLeader, bool_value
<1>3. ASSUME NEW s \in present
      PROVE  <<s, IF role[s] = "leader" THEN 1 ELSE 0>> \in family
  <2>1. Row(s, timed) \in rows
    BY DEF Rows
  <2>2. <<Row(s, timed).shard_id, bool_value(IsLeader(Row(s, timed)))>> \in family
    BY <2>1
  <2> QED
    BY <2>2, RowFields DEF IsLeader, bool_value
<1> HIDE DEF family, rows
<1>4. Labels(family) = present
  <2>1. ASSUME NEW s \in Labels(family)
        PROVE  s \in present
    <3>1. PICK y \in family : s = y[1]
      BY DEF Labels
    <3> QED
      BY <1>2, <3>1
  <2>2. ASSUME NEW s \in present
        PROVE  s \in Labels(family)
    <3> DEFINE y == <<s, IF role[s] = "leader" THEN 1 ELSE 0>>
    <3>1. y \in family /\ y[1] = s
      BY <1>3
    <3> HIDE DEF y
    <3> QED
      BY <3>1 DEF Labels
  <2> QED
    BY <2>1, <2>2
<1>5. Showing(family, 1) = With("leader") \ silent
  <2>1. ASSUME NEW s \in Showing(family, 1)
        PROVE  s \in With("leader") \ silent
    <3>1. PICK y \in family : y[2] = 1 /\ s = y[1]
      BY DEF Showing
    <3>2. PICK t \in present : y = <<t, IF role[t] = "leader" THEN 1 ELSE 0>>
      BY <1>2
    <3> QED
      BY <3>1, <3>2 DEF Hosted, With
  <2>2. ASSUME NEW s \in With("leader") \ silent
        PROVE  s \in Showing(family, 1)
    <3>1. s \in present /\ role[s] = "leader"
      BY DEF Hosted, With
    <3>2. <<s, 1>> \in family
      BY <1>3, <3>1
    <3> QED
      BY <3>2 DEF Showing
  <2> QED
    BY <2>1, <2>2
<1> QED
  BY <1>1, <1>4, <1>5 DEF ShowsNow

\* The shards that the rows of a status give a role to, and that they name.
LEMMA RowsDistil ==
    ASSUME NEW fields \in SUBSET Fields, NEW silent
    PROVE  LET body == StatusBody(fields, silent)
           IN  /\ \A r \in {"leader", "follower"} :
                      shard_ids_by_role(body, r) =
                          IF "rows" \in fields THEN u32_array(With(r) \ silent) ELSE {}
               /\ shard_ids_from_rows(body) =
                      IF "rows" \in fields THEN u32_array(Hosted \ silent) ELSE {}
<1> DEFINE body == StatusBody(fields, silent)
           rows == Rows(silent, {})
<1>1. \A r \in {"leader", "follower"} :
          {x.shard_id : x \in {y \in rows : y.role = r}} = With(r) \ silent
  BY RowFields DEF Rows, With, Hosted
<1>2. {x.shard_id : x \in rows} = Hosted \ silent
  BY RowFields DEF Rows
<1>3. u32_array({}) = {}
  BY DEF u32_array
<1>4. body.shards = IF "rows" \in fields THEN rows ELSE {}
  BY DEF StatusBody
<1> HIDE DEF body, rows
<1>5. CASE "rows" \in fields
  <2>1. body.shards = rows
    BY <1>4, <1>5
  <2> QED BY <1>1, <1>2, <1>5, <2>1
             DEF shard_ids_by_role, shard_ids_from_rows, body
<1>6. CASE "rows" \notin fields
  <2>1. body.shards = {}
    BY <1>4, <1>6
  <2>2. /\ {x.shard_id : x \in body.shards} = {}
        /\ \A r : {x.shard_id : x \in {y \in body.shards : y.role = r}} = {}
    BY <2>1
  <2> QED BY <1>3, <1>6, <2>2 DEF shard_ids_by_role, shard_ids_from_rows, body
<1> QED BY <1>5, <1>6

\* What is distilled from the node's status, whichever fields it has.
LEMMA DistilsNow ==
    ASSUME RoleInv, NEW fields \in SUBSET Fields, NEW silent
    PROVE  LET status == status_from_value(StatusBody(fields, silent))
               stray == status.leading \ status.hosted
           IN  /\ Says(fields, silent, status)
               /\ stray # {} => /\ {"leading", "rows"} \subseteq fields
                                /\ "hosted" \notin fields
                                /\ stray \subseteq silent
<1> DEFINE body == StatusBody(fields, silent)
           led == u32_array(With("leader"))
           followed == u32_array(With("follower"))
           hosted == u32_array(Hosted)
           leads == leading_shards(body)
           follows == following_shards(body)
           hosts == hosted_shards(body)
<1>1. led \subseteq hosted /\ followed \subseteq hosted
  BY DEF u32_array, With, Hosted
<1>2. /\ \A r : u32_array(With(r) \ silent) = u32_array(With(r)) \ silent
      /\ u32_array(Hosted \ silent) = hosted \ silent
      /\ u32_array({}) = {}
  BY DEF u32_array
<1>3. leads = OrElse(IF "leading" \in fields THEN led ELSE {},
                     IF "rows" \in fields THEN led \ silent ELSE {})
  BY <1>2, RowsDistil DEF leading_shards, StatusBody
<1>4. follows = OrElse(IF "following" \in fields THEN followed ELSE {},
                       IF "rows" \in fields THEN followed \ silent ELSE {})
  BY <1>2, RowsDistil DEF following_shards, StatusBody
<1>5. hosts = OrElse(OrElse(IF "hosted" \in fields THEN hosted ELSE {},
                            IF "rows" \in fields THEN hosted \ silent ELSE {}),
                     leads \union follows)
  BY <1>2, RowsDistil DEF hosted_shards, StatusBody
<1>6. /\ status_from_value(body).leading = leads
      /\ status_from_value(body).hosted = hosts
  BY DEF status_from_value
<1> HIDE DEF body, led, followed, hosted, leads, follows, hosts
<1>7. leads \subseteq led /\ follows \subseteq followed
  BY <1>3, <1>4 DEF OrElse
<1>8. {"leading", "rows"} \intersect fields # {} => leads \ silent = led \ silent
  BY <1>3 DEF OrElse
<1>9. {"hosted", "rows"} \intersect fields # {} => hosts \ silent = hosted \ silent
  <2>1. CASE "hosted" \in fields /\ hosted # {}
    BY <1>5, <2>1 DEF OrElse
  <2>2. CASE hosted = {}
    BY <1>1, <1>5, <1>7, <2>2 DEF OrElse
  <2>3. CASE "rows" \in fields /\ "hosted" \notin fields
    BY <1>1, <1>5, <1>7, <2>3 DEF OrElse
  <2> QED BY <2>1, <2>2, <2>3
<1>10. ASSUME leads \ hosts # {}
       PROVE  /\ {"leading", "rows"} \subseteq fields
              /\ "hosted" \notin fields
              /\ leads \ hosts \subseteq silent
  <2>1. hosts # leads \union follows
    BY <1>10
  <2>2. "hosted" \notin fields
    BY <1>1, <1>5, <1>7, <1>10 DEF OrElse
  <2>3. "rows" \in fields /\ hosts = hosted \ silent
    BY <1>5, <2>1, <2>2 DEF OrElse
  <2>4. "leading" \in fields
    BY <1>1, <1>3, <1>10, <2>3 DEF OrElse
  <2>5. leads \ hosts \subseteq silent
    BY <1>1, <1>7, <2>3
  <2> QED BY <2>2, <2>3, <2>4, <2>5
<1> QED BY <1>6, <1>8, <1>9, <1>10 DEF Says, body, led, hosted

\* Two true views of one node agree.
LEMMA NowAgrees ==
    ASSUME NEW beat, NEW is_leader, NEW silent,
           SaysNow(beat), ShowsNow(is_leader, silent)
    PROVE  Agree(beat, is_leader, silent)
<1>1. /\ u32_array(Showing(is_leader, 1)) = u32_array(With("leader")) \ silent
      /\ u32_array(Labels(is_leader)) = u32_array(Hosted) \ silent
  BY DEF ShowsNow, u32_array
<1> QED BY <1>1 DEF SaysNow, Says, Agree

-----------------------------------------------------------------------------
\* The views agree in the initial states.
LEMMA InitViewInv == Init => ViewInv
<1> SUFFICES ASSUME Init PROVE ViewInv
  OBVIOUS
<1>1. RoleInv
  BY DEF Init, NodeInit, RoleInv
<1>2. summary = None /\ pc = 0 /\ page = None
  BY DEF Init
<1> QED
  BY <1>1, <1>2 DEF ViewInv, SummaryInv, ShardsInv, PageInv, PendingAgrees,
                    TwoViewsAgree

\* A change of the node makes whatever was scraped or fetched old.
LEMMA NodeChangeKeeps ==
    ASSUME ViewInv, RoleInv', version' = version + 1,
           UNCHANGED <<summary, exporterVars>>
    PROVE  ViewInv'
<1> USE DEF exporterVars
<1>1. version \in Nat
  BY DEF ViewInv, RoleInv
<1>2. SummaryInv'
  <2>1. summary # None => summary.at \in 0 .. version
    BY DEF ViewInv, SummaryInv
  <2> QED
    BY <1>1, <2>1 DEF SummaryInv
<1>3. ShardsInv'
  <2>1. pc # 0 => shardsAt \in 0 .. version
    BY DEF ViewInv, ShardsInv
  <2> QED
    BY <1>1, <2>1 DEF ShardsInv
<1>4. PageInv'
  <2>1. page # None => page.at \in 0 .. version
    BY DEF ViewInv, PageInv
  <2> QED
    BY <1>1, <2>1 DEF PageInv
<1>5. PendingAgrees' /\ TwoViewsAgree'
  BY DEF ViewInv, PendingAgrees, TwoViewsAgree
<1> QED
  BY <1>2, <1>3, <1>4, <1>5 DEF ViewInv

\* Nothing the views are about changes.
LEMMA RestKeeps ==
    ASSUME ViewInv, UNCHANGED <<role, version, summary, exporterVars>>
    PROVE  ViewInv'
<1> USE DEF exporterVars
<1> QED
  BY DEF ViewInv, RoleInv, SummaryInv, ShardsInv, PageInv, PendingAgrees,
         TwoViewsAgree, SaysNow, Says, ShowsNow, Hosted, With

\* The heartbeat loop scrapes the node as it is, in one of its forms.
LEMMA ScrapeKeeps ==
    ASSUME ViewInv, ScrapeStatus
    PROVE  ViewInv'
<1> USE DEF nodeVars, exporterVars
<1>1. PICK fields \in Forms, silent \in Silences :
          summary' = [at |-> version, fields |-> fields, silent |-> silent,
                      status |-> status_from_value(StatusBody(fields, silent))]
  BY DEF ScrapeStatus
<1>2. /\ summary'.at = version /\ summary'.fields = fields
      /\ summary'.silent = silent
      /\ summary'.status = status_from_value(StatusBody(fields, silent))
  BY <1>1
<1>3. UNCHANGED <<role, version, pc, shardsBody, shardsAt, page>>
  BY DEF ScrapeStatus
<1>4. fields \in SUBSET Fields
  BY FormsAssumption
<1>5. SaysNow(summary')
  <2>1. Says(fields, silent, status_from_value(StatusBody(fields, silent)))
    BY <1>4, DistilsNow DEF ViewInv
  <2> QED BY <1>2, <2>1 DEF SaysNow
<1>6. SaysNow(summary)'
  BY <1>3, <1>5 DEF SaysNow, Says, With, Hosted
<1>7. RoleInv' /\ ShardsInv' /\ PageInv'
  BY <1>3 DEF ViewInv, RoleInv, ShardsInv, PageInv, ShowsNow, Hosted, With
<1>8. SummaryInv'
  BY <1>2, <1>3, <1>6 DEF ViewInv, RoleInv, SummaryInv
<1>9. PendingAgrees'
  <2> SUFFICES ASSUME pc # 0, version = shardsAt
               PROVE  Agree(summary', LeaderFamily(shardsBody),
                            shardsBody.unresponsive_shards)
    BY <1>2, <1>3 DEF PendingAgrees
  <2>1. ShowsNow(LeaderFamily(shardsBody), shardsBody.unresponsive_shards)
    BY DEF ViewInv, ShardsInv
  <2> QED
    BY <1>5, <2>1, NowAgrees
<1>10. TwoViewsAgree'
  <2> SUFFICES ASSUME page # None, version = page.at
               PROVE  Agree(summary', page.families.per_shard.is_leader, page.silent)
    BY <1>2, <1>3 DEF TwoViewsAgree
  <2>1. ShowsNow(page.families.per_shard.is_leader, page.silent)
    BY DEF ViewInv, PageInv
  <2> QED
    BY <1>5, <2>1, NowAgrees
<1> QED
  BY <1>7, <1>8, <1>9, <1>10 DEF ViewInv

\* The exporter fetches the shards as they are.
LEMMA FetchShardsKeeps ==
    ASSUME ViewInv, FetchShards
    PROVE  ViewInv'
<1> USE DEF nodeVars
<1>1. /\ pc' # 0 /\ shardsAt' = version /\ page' = None
      /\ UNCHANGED <<role, version, summary>>
  BY DEF FetchShards
<1>2. ShowsNow(LeaderFamily(shardsBody'), shardsBody'.unresponsive_shards)
  <2>1. PICK silent \in Silences, timed \in SUBSET With("leader") :
            shardsBody' = ShardsBody(silent, timed)
    BY DEF FetchShards
  <2>2. shardsBody'.unresponsive_shards = silent
    BY <2>1 DEF ShardsBody
  <2> QED BY <2>1, <2>2, RowsShowNow DEF ViewInv
<1>3. RoleInv' /\ SummaryInv' /\ PageInv' /\ TwoViewsAgree'
  BY <1>1 DEF ViewInv, RoleInv, SummaryInv, PageInv, TwoViewsAgree, SaysNow, Says,
              Hosted, With
<1>4. ShardsInv'
  <2>1. ShowsNow(LeaderFamily(shardsBody), shardsBody.unresponsive_shards)'
    BY <1>1, <1>2 DEF ShowsNow, Hosted, With
  <2> QED BY <1>1, <2>1 DEF ViewInv, RoleInv, ShardsInv
<1>5. PendingAgrees'
  <2> SUFFICES ASSUME summary # None, summary.at = version
               PROVE  Agree(summary, LeaderFamily(shardsBody'),
                            shardsBody'.unresponsive_shards)
    BY <1>1 DEF PendingAgrees
  <2>1. SaysNow(summary)
    BY DEF ViewInv, SummaryInv
  <2> QED
    BY <1>2, <2>1, NowAgrees
<1> QED
  BY <1>3, <1>4, <1>5 DEF ViewInv

\* The page is written from what was fetched.
LEMMA FetchReadyKeeps ==
    ASSUME ViewInv, FetchReady
    PROVE  ViewInv'
<1> USE DEF nodeVars
<1> DEFINE series == page'.families.per_shard.is_leader
           silent == shardsBody.unresponsive_shards
<1>1. page'.at = shardsAt /\ page'.silent = silent
      /\ series = LeaderFamily(shardsBody)
  BY DEF FetchReady, node_families, LeaderFamily
<1>2. pc # 0 /\ pc' = 0 /\ UNCHANGED <<role, version, summary>>
  BY DEF FetchReady
<1>3. RoleInv' /\ SummaryInv' /\ ShardsInv' /\ PendingAgrees'
  BY <1>2 DEF ViewInv, RoleInv, SummaryInv, ShardsInv, PendingAgrees, SaysNow, Says,
              Hosted, With
<1>4. PageInv'
  <2>1. /\ shardsAt \in 0 .. version
        /\ shardsAt = version => ShowsNow(LeaderFamily(shardsBody), silent)
    BY <1>2 DEF ViewInv, ShardsInv
  <2>2. shardsAt = version => ShowsNow(series, silent)
    BY <1>1, <2>1
  <2> QED
    BY <1>1, <1>2, <2>1, <2>2 DEF PageInv, ShowsNow, Hosted, With
<1>5. TwoViewsAgree'
  BY <1>1, <1>2 DEF ViewInv, PendingAgrees, TwoViewsAgree
<1> QED
  BY <1>3, <1>4, <1>5 DEF ViewInv

\* Every step keeps the views in agreement: one step per action.
LEMMA NextViewInv == ViewInv /\ [Next]_vars => ViewInv'
<1> SUFFICES ASSUME ViewInv, [Next]_vars PROVE ViewInv'
  OBVIOUS
<1>1. ASSUME NEW s \in Shards, NEW r \in Roles, Reassign(s, r)
      PROVE  ViewInv'
  <2>1. RoleInv'
    BY <1>1 DEF Reassign, ViewInv, RoleInv
  <2> QED
    BY <1>1, <2>1, NodeChangeKeeps DEF Reassign
<1>2. ASSUME NEW s \in Shards, Fault(s)
      PROVE  ViewInv'
  <2>1. RoleInv'
    BY <1>2 DEF Fault, ViewInv, RoleInv
  <2> QED
    BY <1>2, <2>1, NodeChangeKeeps DEF Fault
<1>3. CASE ScrapeStatus
  BY <1>3, ScrapeKeeps
<1>4. CASE FetchShards
  BY <1>4, FetchShardsKeeps
<1>5. CASE FetchOps
  BY <1>5 DEF FetchOps, nodeVars, ViewInv, RoleInv, SummaryInv, ShardsInv,
              PageInv, PendingAgrees, TwoViewsAgree, SaysNow, Says, ShowsNow,
              Hosted, With
<1>6. CASE FetchReady
  BY <1>6, FetchReadyKeeps
<1>7. CASE FetchFails
  BY <1>7 DEF FetchFails, nodeVars, ViewInv, RoleInv, SummaryInv, ShardsInv,
              PageInv, PendingAgrees, TwoViewsAgree, SaysNow, Says, ShowsNow,
              Hosted, With
<1>8. CASE UNCHANGED vars
  BY <1>8, RestKeeps DEF vars, nodeVars, ViewInv, RoleInv
<1> QED
  BY <1>1, <1>2, <1>3, <1>4, <1>5, <1>6, <1>7, <1>8 DEF Next

\* The heartbeat and the page agree on a node they saw in the same assignment
\* (status_from_value against per_shard_families) but for the shards that one of
\* the bodies left out, for every set of shards, every width of an id and every
\* set of forms of the node's status.
THEOREM TwoViewsAgreeCorrect == Spec => []TwoViewsAgree
<1>1. ViewInv => TwoViewsAgree
  BY DEF ViewInv
<1> QED
  BY <1>1, InitViewInv, NextViewInv, PTL DEF Spec

\* A heartbeat leads what it does not host only if the node listed what it leads
\* and gave rows without it for what it hosts (status_from_value), with the same
\* generality: a status with a list of hosted shards, or without one of leading
\* shards, never does.
THEOREM LeadsWhatItHostsCorrect == Spec => []LeadsWhatItHosts
<1>1. Init => LeadsWhatItHosts
  BY DEF Init, LeadsWhatItHosts
<1>2. ViewInv /\ LeadsWhatItHosts /\ [Next]_vars => LeadsWhatItHosts'
  <2> SUFFICES ASSUME ViewInv, LeadsWhatItHosts, [Next]_vars
               PROVE  LeadsWhatItHosts'
    OBVIOUS
  <2>1. CASE ScrapeStatus
    <3>1. PICK fields \in Forms, silent \in Silences :
              summary' = [at |-> version, fields |-> fields, silent |-> silent,
                          status |-> status_from_value(StatusBody(fields, silent))]
      BY <2>1 DEF ScrapeStatus
    <3> DEFINE status == status_from_value(StatusBody(fields, silent))
               stray == status.leading \ status.hosted
    <3>2. /\ summary'.fields = fields /\ summary'.silent = silent
          /\ summary'.status = status
      BY <3>1
    <3>3. fields \in SUBSET Fields
      BY FormsAssumption
    <3>4. stray # {} => /\ {"leading", "rows"} \subseteq fields
                        /\ "hosted" \notin fields
                        /\ stray \subseteq silent
      BY <3>3, DistilsNow DEF ViewInv
    <3> HIDE DEF status
    <3> QED
      BY <3>2, <3>4 DEF LeadsWhatItHosts
  <2>2. CASE UNCHANGED summary
    BY <2>2 DEF LeadsWhatItHosts
  <2>3. ScrapeStatus \/ UNCHANGED summary
    BY DEF Next, vars, exporterVars, nodeVars, Reassign, Fault,
           FetchShards, FetchOps, FetchReady, FetchFails
  <2> QED
    BY <2>1, <2>2, <2>3
<1> QED
  BY <1>1, <1>2, InitViewInv, NextViewInv, PTL DEF Spec

-----------------------------------------------------------------------------
(***************************************************************************)
(* The types                                                               *)
(***************************************************************************)
LEMMA DistilsTyped == \A body : status_from_value(body) \in Statuses
BY DEF status_from_value, leading_shards, following_shards, hosted_shards, OrElse,
       u32_array, shard_ids_by_role, shard_ids_from_rows, Statuses

LEMMA TypeInit == Init => TypeOK
BY BoundsAssumption DEF Init, NodeInit, TypeOK, Hosted

LEMMA TypeStep == TypeOK /\ [Next]_vars => TypeOK'
<1> SUFFICES ASSUME TypeOK, [Next]_vars PROVE TypeOK'
  OBVIOUS
<1> DEFINE Scraped(v) == [at : 0 .. v, fields : Forms,
                          silent : SUBSET Shards, status : Statuses]
           SummaryTyped == summary = None \/ summary \in Scraped(version)
<1>1. ASSUME version' = version + 1, UNCHANGED <<summary, exporterVars>>,
             role' \in [Shards -> Roles], faulted' \subseteq Hosted'
      PROVE  TypeOK'
  <2>1. SummaryTyped'
    <3>1. 0 .. version \subseteq 0 .. version'
      BY <1>1 DEF TypeOK
    <3>2. CASE summary = None
      BY <1>1, <3>2
    <3>3. CASE summary \in Scraped(version)
      BY <1>1, <3>1, <3>3
    <3> QED BY <3>2, <3>3 DEF TypeOK
  <2>2. shardsAt' \in -1 .. version' /\ version' \in Nat
    BY <1>1 DEF TypeOK, exporterVars
  <2> QED BY <1>1, <2>1, <2>2 DEF TypeOK, exporterVars
<1>2. ASSUME NEW s \in Shards, NEW r \in Roles, Reassign(s, r)
      PROVE  TypeOK'
  <2>1. role' \in [Shards -> Roles] /\ faulted' \subseteq Hosted'
    BY <1>2 DEF Reassign, TypeOK, Hosted
  <2> QED BY <1>1, <1>2, <2>1 DEF Reassign
<1>3. ASSUME NEW s \in Shards, Fault(s)
      PROVE  TypeOK'
  <2>1. role' \in [Shards -> Roles] /\ faulted' \subseteq Hosted'
    BY <1>3 DEF Fault, TypeOK, Hosted
  <2> QED BY <1>1, <1>3, <2>1 DEF Fault
<1>4. CASE ScrapeStatus
  <2>1. PICK fields \in Forms, silent \in Silences :
            summary' = [at |-> version, fields |-> fields, silent |-> silent,
                        status |-> status_from_value(StatusBody(fields, silent))]
    BY <1>4 DEF ScrapeStatus
  <2>2. silent \in SUBSET Shards /\ version \in 0 .. version
    BY DEF Silences, Hosted, TypeOK
  <2>3. summary' \in Scraped(version)
    BY <2>1, <2>2, DistilsTyped
  <2>4. UNCHANGED <<nodeVars, exporterVars>>
    BY <1>4 DEF ScrapeStatus
  <2> QED BY <2>3, <2>4 DEF TypeOK, nodeVars, exporterVars, Hosted
<1>5. CASE FetchShards \/ FetchOps \/ FetchReady \/ FetchFails
  BY <1>5 DEF FetchShards, FetchOps, FetchReady, FetchFails, TypeOK, nodeVars,
              Hosted
<1>6. CASE UNCHANGED vars
  BY <1>6 DEF vars, nodeVars, exporterVars, TypeOK, Hosted
<1> QED BY <1>2, <1>3, <1>4, <1>5, <1>6 DEF Next

\* Every variable keeps its type: in particular a heartbeat names ids of 32
\* bits only, and a failed store is one of a hosted shard.
THEOREM TypeCorrect == Spec => []TypeOK
BY TypeInit, TypeStep, PTL DEF Spec


-----------------------------------------------------------------------------
(***************************************************************************)
(* A page against itself                                                   *)
(***************************************************************************)
\* What a body of the shards and one of the operations promise of the page.
RoundTrips(body) ==
    Labels(per_shard_families(body.rows).append_rtt) \subseteq
        Showing(per_shard_families(body.rows).is_leader, 1)

FailedStores(body) ==
    Showing(per_shard_families(body.rows).storage_healthy, 0) \subseteq
        body.storage_faulted_shards

Whole(body) ==
    /\ body.buckets = <<body.buckets[1], body.buckets[2]>>
    /\ body.buckets[1] <= body.count /\ body.buckets[2] = body.count

BodiesInv ==
    /\ pc # 0 => /\ RoundTrips(shardsBody) /\ FailedStores(shardsBody)
                 /\ shardsAt = version =>
                        shardsBody.storage_faulted_shards = faulted
    /\ pc = 2 => Whole(opsBody)

PageAgrees == RoundTripsLed /\ QuietPageAgrees /\ HistogramWhole

\* The body of the shards is sound when it is written: a row with a round trip
\* is one of a led shard, a row with a failed store one of a faulted shard.
LEMMA ShardsSound ==
    ASSUME NEW silent, NEW timed \in SUBSET With("leader")
    PROVE  /\ RoundTrips(ShardsBody(silent, timed))
           /\ FailedStores(ShardsBody(silent, timed))
<1> DEFINE rows == Rows(silent, timed)
           leads == {<<r.shard_id, bool_value(IsLeader(r))>> : r \in rows}
           trips == {<<r.shard_id, r.append_rtt_ms_last>> : r \in Measured(rows)}
           stores == {<<r.shard_id, bool_value(r.storage_healthy)>> : r \in rows}
<1>1. \A r \in rows : \E s \in Hosted \ silent : r = Row(s, timed)
  BY DEF Rows
<1>2. ASSUME NEW y \in trips
      PROVE  y[1] \in Showing(leads, 1)
  <2>1. PICK r \in Measured(rows) : y = <<r.shard_id, r.append_rtt_ms_last>>
    OBVIOUS
  <2>2. PICK s \in Hosted \ silent : r = Row(s, timed)
    BY <1>1, <2>1 DEF Measured
  <2>3. r \in rows /\ r.append_rtt_ms_last # Null
    BY <2>1 DEF Measured
  <2>4. s \in timed
    BY <2>2, <2>3, RowFields
  <2>5. IsLeader(r) /\ r.shard_id = s
    BY <2>2, <2>4, RowFields DEF IsLeader, With
  <2>6. <<r.shard_id, bool_value(IsLeader(r))>> \in leads
    BY <2>3
  <2>7. <<s, 1>> \in leads /\ <<s, 1>>[1] = s /\ <<s, 1>>[2] = 1
    BY <2>5, <2>6 DEF bool_value
  <2>8. y[1] = s
    BY <2>1, <2>5
  <2> HIDE DEF leads
  <2> QED BY <2>7, <2>8 DEF Showing
<1>3. ASSUME NEW y \in stores, y[2] = 0
      PROVE  y[1] \in faulted
  <2>1. PICK r \in rows : y = <<r.shard_id, bool_value(r.storage_healthy)>>
    OBVIOUS
  <2>2. PICK s \in Hosted \ silent : r = Row(s, timed)
    BY <1>1
  <2>3. bool_value(r.storage_healthy) = 0
    BY <1>3, <2>1
  <2>4. bool_value(Row(s, timed).storage_healthy) = IF s \notin faulted THEN 1 ELSE 0
    BY Zenon, RowFields DEF bool_value
  <2>5. s \in faulted
    BY <2>2, <2>3, <2>4
  <2>6. y[1] = s
    BY <2>1, <2>2, RowFields
  <2> QED BY <2>5, <2>6
<1>4. LET family == per_shard_families(ShardsBody(silent, timed).rows)
      IN  family.is_leader = leads /\ family.append_rtt = trips
              /\ family.storage_healthy = stores
  BY DEF ShardsBody, per_shard_families
<1>5. ShardsBody(silent, timed).storage_faulted_shards = faulted
  BY DEF ShardsBody
<1> HIDE DEF leads, trips, stores
<1>6. Labels(trips) \subseteq Showing(leads, 1)
  BY <1>2 DEF Labels
<1>7. Showing(stores, 0) \subseteq faulted
  BY <1>3 DEF Showing
<1> QED BY <1>4, <1>5, <1>6, <1>7 DEF RoundTrips, FailedStores

\* So is the body of the operations.
LEMMA OpsWhole ==
    ASSUME NEW fast \in Nat, NEW slow \in Nat
    PROVE  Whole(OpsBody(fast, slow))
<1>1. /\ OpsBody(fast, slow).buckets = <<fast, fast + slow>>
      /\ OpsBody(fast, slow).count = fast + slow
  BY DEF OpsBody
<1> QED BY <1>1 DEF Whole

\* The page is written from bodies that were sound when they were fetched.
LEMMA FetchReadyAgrees ==
    ASSUME TypeOK, BodiesInv, FetchReady
    PROVE  PageAgrees'
<1> DEFINE f == page'.families
<1>1. PICK running \in BOOLEAN :
          page' = [at |-> shardsAt, until |-> version,
                   silent |-> shardsBody.unresponsive_shards,
                   families |-> node_families(shardsBody, opsBody, ReadyBody(running))]
  BY DEF FetchReady
<1>2. /\ page'.at = shardsAt /\ page'.until = version
      /\ f = node_families(shardsBody, opsBody, ReadyBody(running))
  BY <1>1
<1>3. /\ f.ready = bool_value(IsReady(ReadyBody(running)))
      /\ f.storage_faulted = Cardinality(shardsBody.storage_faulted_shards)
      /\ f.per_shard = per_shard_families(shardsBody.rows)
      /\ f.op = op_families(opsBody)
  BY <1>2 DEF node_families
<1> HIDE DEF f
<1>4. RoundTrips(shardsBody) /\ FailedStores(shardsBody) /\ Whole(opsBody)
  BY DEF BodiesInv, FetchReady
<1>5. RoundTripsLed'
  BY <1>3, <1>4 DEF RoundTripsLed, RoundTrips, f
<1>6. QuietPageAgrees'
  <2> SUFFICES ASSUME shardsAt = version, f.ready = 1
               PROVE  /\ f.storage_faulted = 0
                      /\ Showing(f.per_shard.storage_healthy, 0) = {}
    BY <1>2 DEF QuietPageAgrees, f
  <2>1. shardsBody.storage_faulted_shards = faulted
    BY DEF BodiesInv, FetchReady
  <2>2. faulted = {}
    BY <1>3 DEF bool_value, IsReady, ReadyBody
  <2>3. Cardinality({}) = 0
    BY FS_EmptySet
  <2> QED BY <1>3, <1>4, <2>1, <2>2, <2>3 DEF FailedStores
<1>7. HistogramWhole'
  <2>1. /\ f.op.bucket = <<opsBody.buckets[1], opsBody.buckets[2]>>
        /\ f.op.count = opsBody.count
    BY <1>3, <1>4 DEF op_families, Buckets, Whole
  <2>2. /\ Len(f.op.bucket) = 2
        /\ f.op.bucket[1] = opsBody.buckets[1]
        /\ f.op.bucket[2] = opsBody.buckets[2]
    BY <2>1
  <2>3. \A b \in 2 .. 2 : f.op.bucket[b - 1] <= f.op.bucket[b]
    BY <1>4, <2>2 DEF Whole
  <2> QED BY <1>4, <2>1, <2>2, <2>3 DEF HistogramWhole, Whole, f
<1> QED BY <1>5, <1>6, <1>7 DEF PageAgrees

LEMMA PageAgreesKept ==
    ASSUME PageAgrees, UNCHANGED page
    PROVE  PageAgrees'
BY DEF PageAgrees, RoundTripsLed, QuietPageAgrees, HistogramWhole

\* Every step keeps the bodies sound and the page in agreement.
LEMMA PageStep ==
    TypeOK /\ BodiesInv /\ PageAgrees /\ [Next]_vars => BodiesInv' /\ PageAgrees'
<1> SUFFICES ASSUME TypeOK, BodiesInv, PageAgrees, [Next]_vars
             PROVE  BodiesInv' /\ PageAgrees'
  OBVIOUS
<1>1. ASSUME version' = version + 1, UNCHANGED exporterVars
      PROVE  BodiesInv' /\ PageAgrees'
  <2>1. shardsAt' # version'
    BY <1>1 DEF TypeOK, exporterVars
  <2> QED BY <1>1, <2>1, PageAgreesKept DEF BodiesInv, exporterVars
<1>2. ASSUME UNCHANGED <<version, faulted, exporterVars>>
      PROVE  BodiesInv' /\ PageAgrees'
  BY <1>2, PageAgreesKept DEF BodiesInv, exporterVars
<1>3. ASSUME NEW s \in Shards, NEW r \in Roles, Reassign(s, r)
      PROVE  BodiesInv' /\ PageAgrees'
  BY <1>1, <1>3 DEF Reassign
<1>4. ASSUME NEW s \in Shards, Fault(s)
      PROVE  BodiesInv' /\ PageAgrees'
  BY <1>1, <1>4 DEF Fault
<1>5. CASE ScrapeStatus \/ UNCHANGED vars
  BY <1>2, <1>5 DEF ScrapeStatus, vars, nodeVars
<1>6. CASE FetchShards
  <2>1. pc' = 1 /\ page' = None /\ UNCHANGED <<version, faulted>>
    BY <1>6 DEF FetchShards, nodeVars
  <2>2. PICK silent \in Silences, timed \in SUBSET With("leader") :
            shardsBody' = ShardsBody(silent, timed)
    BY <1>6 DEF FetchShards
  <2>3. RoundTrips(shardsBody') /\ FailedStores(shardsBody')
        /\ shardsBody'.storage_faulted_shards = faulted
    BY <2>2, ShardsSound DEF ShardsBody
  <2>4. BodiesInv'
    BY <2>1, <2>3 DEF BodiesInv, RoundTrips, FailedStores
  <2>5. PageAgrees'
    BY <2>1 DEF PageAgrees, RoundTripsLed, QuietPageAgrees, HistogramWhole
  <2> QED BY <2>4, <2>5
<1>7. CASE FetchOps
  <2>1. /\ pc = 1 /\ pc' = 2
        /\ UNCHANGED <<page, version, faulted, shardsBody, shardsAt>>
    BY <1>7 DEF FetchOps, nodeVars
  <2>2. PICK fast \in 0 .. MaxOps, slow \in 0 .. MaxOps : opsBody' = OpsBody(fast, slow)
    BY <1>7 DEF FetchOps
  <2>3. Whole(opsBody')
    BY <2>2, OpsWhole, BoundsAssumption
  <2>4. BodiesInv'
    BY <2>1, <2>3 DEF BodiesInv, Whole, RoundTrips, FailedStores
  <2> QED BY <2>1, <2>4, PageAgreesKept
<1>8. CASE FetchReady
  <2>1. pc' = 0
    BY <1>8 DEF FetchReady
  <2> QED BY <1>8, <2>1, FetchReadyAgrees DEF BodiesInv
<1>9. CASE FetchFails
  <2>1. pc' = 0 /\ UNCHANGED page
    BY <1>9 DEF FetchFails
  <2> QED BY <2>1, PageAgreesKept DEF BodiesInv
<1> QED BY <1>3, <1>4, <1>5, <1>6, <1>7, <1>8, <1>9 DEF Next

LEMMA PageCorrect == Spec => []PageAgrees
<1>1. Init => BodiesInv /\ PageAgrees
  BY DEF Init, BodiesInv, PageAgrees, RoundTripsLed, QuietPageAgrees, HistogramWhole
<1> QED BY <1>1, TypeInit, TypeStep, PageStep, PTL DEF Spec

\* Round trips are shown of shards shown as led only, whichever leaders have
\* measured one (exporter.rs:479-480).
THEOREM RoundTripsLedCorrect == Spec => []RoundTripsLed
<1>1. PageAgrees => RoundTripsLed
  BY DEF PageAgrees
<1> QED BY <1>1, PageCorrect, PTL

\* A page that shows a ready node and a failed store was fetched while the node
\* changed.
THEOREM QuietPageAgreesCorrect == Spec => []QuietPageAgrees
<1>1. PageAgrees => QuietPageAgrees
  BY DEF PageAgrees
<1> QED BY <1>1, PageCorrect, PTL

\* The histogram of a page is cumulative up to its count, whatever the node has
\* recorded (op_families).
THEOREM HistogramWholeCorrect == Spec => []HistogramWhole
<1>1. PageAgrees => HistogramWhole
  BY DEF PageAgrees
<1> QED BY <1>1, PageCorrect, PTL
=============================================================================
