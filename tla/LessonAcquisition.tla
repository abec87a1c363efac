-------------------------- MODULE LessonAcquisition --------------------------
(***************************************************************************)
(* Images for the claims of a curriculum.  Items are first assigned        *)
(* reviewed images of the registry, then images that are shortlisted from  *)
(* the metadata of other datasets, downloaded, inspected and reviewed.     *)
(* Each proposal is verified on its pixels by a queue of its own, and the  *)
(* verdicts are folded into the protected selections and the needs that    *)
(* remain.  The tools are commands that keep their results in files, and a *)
(* file may be older than the registry or than another file.  The operator *)
(* runs them in any order but one: images of other datasets are looked for *)
(* once every item has a route, as the documented sequence has it (steps 3 *)
(* to 7 of SKILL.md); no command asks for it (Complete).                   *)
(***************************************************************************)
EXTENDS Integers, Sequences, FiniteSets

CONSTANTS
    Items,       \* 1 .. n, in curriculum order
    Assets,
    Registered,  \* assets that are reviewed and usable at the start
    Coco,        \* assets of COCO; the others are of Open Images
    MaxLists,    \* bound: shortlists
    MaxPasses,   \* bound: verification passes
    Null

VARIABLES
    status,     \* an asset in the registry
    decision,   \* the final review decision of an asset
    shortlist,  \* the last shortlist: its candidates, and how far they were taken
    proposal,   \* the last selection proposal
    passes,     \* the verification passes: their queue, and the results that were exported
    ledger,     \* protected selections, external needs, and items that need no single image
    asked,      \* the needs that are being reassessed
    lists

vars == <<status, decision, shortlist, proposal, passes, ledger, asked, lists>>

Rows == Items \X Assets
Verdicts == {"accept", "reject", "uncertain"}
ItemsOf(rows) == {r[1] : r \in rows}
AssetsOf(rows) == {r[2] : r \in rows}
Distinct(rows) == \A r, s \in rows : r # s => r[1] # s[1] /\ r[2] # s[2]

TypeOK ==
    /\ status \in [Assets -> {"absent", "metadata_only", "downloaded", "mechanically_valid",
                              "needs_review", "reviewed_usable", "quarantined_unusable"}]
    /\ decision \in [Assets -> {Null, "usable", "unusable"}]
    /\ shortlist.rows \subseteq Rows
    /\ shortlist.at \in {"none", "found", "admitted", "downloaded", "inspected", "reviewed"}
    /\ proposal.rows \subseteq Rows /\ proposal.from \in {"none", "registry", "external"}
    /\ \A k \in DOMAIN passes :
          /\ passes[k].from \in {"registry", "external"}
          /\ \A f \in {passes[k].queue, passes[k].exported} \ {Null} :
                DOMAIN f \subseteq Rows /\ \A r \in DOMAIN f : f[r] \in Verdicts \cup {"pending"}
    /\ ledger.protected \subseteq Rows /\ ledger.external \subseteq Items
    /\ ledger.dispositions \subseteq Items
    /\ asked \subseteq Items /\ lists \in 0 .. MaxLists

Init ==
    /\ status = [x \in Assets |-> IF x \in Registered THEN "reviewed_usable" ELSE "absent"]
    /\ decision = [x \in Assets |-> IF x \in Registered THEN "usable" ELSE Null]
    /\ shortlist = [rows |-> {}, at |-> "none"]
    /\ proposal = [rows |-> {}, from |-> "none"]
    /\ passes = <<>>
    /\ ledger = [protected |-> {}, external |-> {}, dispositions |-> {}]
    /\ asked = {} /\ lists = 0

\* In the order of the items, each takes a fitting asset that no earlier item took, if there is one.
Assignments(fits) ==
    LET free(f, i) == {x \in Assets : <<i, x>> \in fits} \ {f[j] : j \in {k \in Items : k < i}}
    IN  {f \in [Items -> Assets \cup {Null}] :
           \A i \in Items : IF free(f, i) = {} THEN f[i] = Null ELSE f[i] \in free(f, i)}
RowsOf(f) == {<<i, f[i]>> : i \in {j \in Items : f[j] # Null}}

-----------------------------------------------------------------------------
(* Assignment from the registry                                            *)

\* Text of the registry that names the concept or realizes the claim makes an asset fit.
Fitting == SUBSET (Items \X {x \in Assets : status[x] = "reviewed_usable"})

Assign ==
    /\ proposal.from = "none"
    /\ \E fits \in Fitting : \E f \in Assignments(fits) :
          /\ proposal' = [rows |-> RowsOf(f), from |-> "registry"]
          /\ ledger' = [ledger EXCEPT !.external = Items \ ItemsOf(RowsOf(f))]
    /\ UNCHANGED <<status, decision, shortlist, passes, asked, lists>>

-----------------------------------------------------------------------------
(* Verification of a proposal                                              *)

Verified == UNION {DOMAIN passes[k].queue : k \in DOMAIN passes}

Queueable(rows) ==
    rows # {} /\ Distinct(rows) /\ \A x \in AssetsOf(rows) : status[x] = "reviewed_usable"

\* A proposal of the registry is verified in parts; one of a shortlist, as a whole.
InitializeQueue ==
    /\ Len(passes) < MaxPasses
    /\ \E rows \in SUBSET proposal.rows :
          /\ rows \cap Verified = {} \/ proposal.from = "external"
          /\ rows = proposal.rows \/ proposal.from = "registry"
          /\ Queueable(rows)
          /\ \A k \in DOMAIN passes : DOMAIN passes[k].queue # rows
          /\ passes' = Append(passes, [from |-> proposal.from, queue |-> [r \in rows |-> "pending"],
                                       exported |-> Null])
    /\ UNCHANGED <<status, decision, shortlist, proposal, ledger, asked, lists>>

Verify(k, r, verdict) ==
    /\ passes[k].queue[r] = "pending"
    /\ passes' = [passes EXCEPT ![k].queue[r] = verdict]
    /\ UNCHANGED <<status, decision, shortlist, proposal, ledger, asked, lists>>

Export(k) ==
    /\ passes[k].exported # passes[k].queue
    /\ passes' = [passes EXCEPT ![k].exported = passes[k].queue]
    /\ UNCHANGED <<status, decision, shortlist, proposal, ledger, asked, lists>>

Bucket(k, verdicts) ==
    IF passes[k].exported = Null THEN {}
    ELSE {r \in DOMAIN passes[k].exported : passes[k].exported[r] \in verdicts}
Finished(k) == passes[k].exported # Null /\ Bucket(k, {"pending"}) = {}
Exported == {k \in DOMAIN passes : passes[k].exported # Null}
InBucket(verdicts) == UNION {Bucket(k, verdicts) : k \in Exported}

-----------------------------------------------------------------------------
(* The results of the registry's proposal                                  *)

RouteDisjoint(l) ==
    /\ ItemsOf(l.protected) \cap l.external = {}
    /\ (ItemsOf(l.protected) \cup l.external) \cap l.dispositions = {}

Reconcile(k) ==
    LET accepted == Bucket(k, {"accept"})
        refused == ItemsOf(Bucket(k, {"reject", "uncertain"}))
        reconciled == [ledger EXCEPT !.protected = @ \cup accepted, !.external = @ \cup refused]
    IN  /\ passes[k].from = "registry" /\ Finished(k)
        /\ refused \cap ledger.external = {}
        /\ ItemsOf(ledger.protected) \cap ItemsOf(accepted) = {}
        /\ RouteDisjoint(reconciled)
        /\ ledger' = reconciled
        /\ UNCHANGED <<status, decision, shortlist, proposal, passes, asked, lists>>

-----------------------------------------------------------------------------
(* Candidates of other datasets                                            *)

\* The search starts when every item has its route; reconcile does not look at assets, rounds do.
Complete ==
    /\ proposal.from # "none"
    /\ ItemsOf(ledger.protected) \cup ledger.external \cup ledger.dispositions = Items

\* One image is a candidate of one item.  Only COCO's search leaves out what was verified before.
OpenImages == ledger.external \X (Assets \ Coco)
CocoImages ==
    (ledger.external \ ItemsOf(InBucket({"accept"}))) \X (Coco \ AssetsOf(InBucket(Verdicts)))

Discover(source) ==
    /\ Complete /\ lists < MaxLists /\ lists' = lists + 1
    /\ \E rows \in (SUBSET source) \ {{}} :
          /\ Cardinality(AssetsOf(rows)) = Cardinality(rows)
          /\ shortlist' = [rows |-> rows, at |-> "found"]
    /\ UNCHANGED <<status, decision, proposal, passes, ledger, asked>>

OpenImagesShortlist == Discover(OpenImages)
CocoShortlist == Discover(CocoImages)

Candidates == AssetsOf(shortlist.rows)

\* A row that the registry has already keeps its status.
Admit ==
    /\ shortlist.at = "found" /\ shortlist' = [shortlist EXCEPT !.at = "admitted"]
    /\ status' = [x \in Assets |-> IF x \in Candidates /\ status[x] = "absent" THEN "metadata_only"
                                   ELSE status[x]]
    /\ UNCHANGED <<decision, proposal, passes, ledger, asked, lists>>

\* Some downloads fail.  The others set the status, of assets that were reviewed before too.
DownloadSelection ==
    /\ shortlist.at \in {"admitted", "downloaded"}
    /\ shortlist' = [shortlist EXCEPT !.at = "downloaded"]
    /\ \E got \in (SUBSET Candidates) \ {{}} :
          status' = [x \in Assets |-> IF x \in got THEN "downloaded" ELSE status[x]]
    /\ UNCHANGED <<decision, proposal, passes, ledger, asked, lists>>

InspectSelection ==
    /\ shortlist.at = "downloaded" /\ shortlist' = [shortlist EXCEPT !.at = "inspected"]
    /\ \E valid \in SUBSET {x \in Candidates : status[x] \in {"downloaded", "mechanically_valid"}} :
          status' = [x \in Assets |-> CASE x \notin Candidates \/ status[x] = "reviewed_usable" -> status[x]
                                        [] x \in valid -> "mechanically_valid"
                                        [] OTHER -> "needs_review"]
    /\ UNCHANGED <<decision, proposal, passes, ledger, asked, lists>>

\* The review of the valid assets.  A decision is final: an asset that has one keeps its new status.
FinalizeReview ==
    /\ shortlist.at = "inspected" /\ shortlist' = [shortlist EXCEPT !.at = "reviewed"]
    /\ LET new == {x \in Candidates : status[x] = "mechanically_valid" /\ decision[x] = Null}
       IN  \E usable \in SUBSET new :
              /\ decision' = [x \in Assets |-> IF x \in usable THEN "usable"
                                               ELSE IF x \in new THEN "unusable" ELSE decision[x]]
              /\ status' = [x \in Assets |-> IF x \in usable THEN "reviewed_usable"
                                             ELSE IF x \in new THEN "quarantined_unusable"
                                             ELSE status[x]]
    /\ UNCHANGED <<proposal, passes, ledger, asked, lists>>

\* A candidate that no earlier pass refused, for an item that no earlier pass settled.
Proposable ==
    {r \in shortlist.rows :
        /\ r[1] \notin ItemsOf(InBucket({"accept"}))
        /\ r[2] \notin AssetsOf(InBucket({"reject", "uncertain"}))
        /\ status[r[2]] = "reviewed_usable"}

BuildProposal ==
    /\ shortlist.at # "none"
    /\ \E f \in Assignments(Proposable) :
          /\ [rows |-> RowsOf(f), from |-> "external"] # proposal
          /\ proposal' = [rows |-> RowsOf(f), from |-> "external"]
    /\ UNCHANGED <<status, decision, shortlist, passes, ledger, asked, lists>>

-----------------------------------------------------------------------------
(* Rounds                                                                  *)

Accepts(round) == UNION {{<<k, r>> : r \in Bucket(k, {"accept"})} : k \in round}
RowsIn(accepts) == {x[2] : x \in accepts}

\* External accepts repeat no item and no asset, of one another or of protected selections.
Repeats(accepts) == \E x, y \in accepts : x # y /\ (x[2][1] = y[2][1] \/ x[2][2] = y[2][2])

\* fault: the images are not compared
OverlapsAnItem(accepts) == ItemsOf(ledger.protected) \cap ItemsOf(RowsIn(accepts)) # {}
OverlapsProtected(accepts) ==
    \/ ItemsOf(ledger.protected) \cap ItemsOf(RowsIn(accepts)) # {}
    \/ AssetsOf(ledger.protected) \cap AssetsOf(RowsIn(accepts)) # {}

ReconcileRound(round) ==
    LET accepts == Accepts(round)
        rows == RowsIn(accepts)
        reconciled == [ledger EXCEPT !.protected = @ \cup rows, !.external = @ \ ItemsOf(rows)]
    IN  /\ \A k \in round : passes[k].from = "external" /\ Finished(k)
        /\ \A k \in round : ItemsOf(Bucket(k, Verdicts)) \subseteq ledger.external
        /\ ~Repeats(accepts) /\ ~OverlapsProtected(accepts)
        /\ RouteDisjoint(reconciled)
        /\ reconciled # ledger
        /\ ledger' = reconciled
        /\ UNCHANGED <<status, decision, shortlist, proposal, passes, asked, lists>>

-----------------------------------------------------------------------------
(* Claims that no single image can teach                                   *)

\* Batches of needs are classified; the rows that came are kept when one fails.
Reassess ==
    /\ Complete /\ asked = {} /\ ledger.external # {} /\ asked' = ledger.external
    /\ UNCHANGED <<status, decision, shortlist, proposal, passes, ledger, lists>>

\* The needs are those that were asked about; a claim proposed as a single image is audited.
ReconcileBoundary ==
    /\ asked # {} /\ asked' = {}
    /\ \E single \in SUBSET asked :
          ledger' = [ledger EXCEPT !.external = single, !.dispositions = @ \cup (asked \ single)]
    /\ UNCHANGED <<status, decision, shortlist, proposal, passes, lists>>

-----------------------------------------------------------------------------
Pass(k) ==
    \/ \E r \in DOMAIN passes[k].queue, verdict \in Verdicts : Verify(k, r, verdict)
    \/ Export(k)
    \/ Reconcile(k)

Next ==
    \/ Assign \/ InitializeQueue
    \/ \E k \in DOMAIN passes : Pass(k)
    \/ OpenImagesShortlist \/ CocoShortlist
    \/ Admit \/ DownloadSelection \/ InspectSelection \/ FinalizeReview
    \/ BuildProposal
    \/ \E round \in SUBSET DOMAIN passes : ReconcileRound(round)
    \/ Reassess \/ ReconcileBoundary

Spec == Init /\ [][Next]_vars

(* A protected selection was accepted on its pixels and is of an image     *)
(* that the corpus review found usable, and no image is protected for two  *)
(* items nor an item twice: across proposals built from old files, passes  *)
(* that overlap, and an image that the registry had already when another   *)
(* dataset offered it ("no accidental asset reuse",                        *)
(* commands-and-artifacts.md).                                             *)
SelectionsDistinct ==
    /\ Distinct(ledger.protected)
    /\ \A r \in ledger.protected :
          /\ decision[r[2]] = "usable"
          /\ \E k \in DOMAIN passes : r \in Bucket(k, {"accept"})
=============================================================================
