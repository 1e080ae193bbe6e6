-------------------------------- MODULE Catalog --------------------------------
(***************************************************************************)
(* One product, one of its plans, one key of its entitlements and its      *)
(* releases, as staff edit them (catalog/catalog_service.ts and            *)
(* catalog/release_service.ts, called by the controllers of the            *)
(* back-office).                                                           *)
(*                                                                         *)
(* A request loads the rows it works on and decides on those copies; no    *)
(* row is locked.  A save writes the columns that differ from the copy.    *)
(* The build of a release is an object on the disk, moved there before its *)
(* row exists and removed after its row has gone.                          *)
(***************************************************************************)
EXTENDS Versions, FiniteSets

CONSTANTS
    Desks,          \* requests of staff at work at once
    Slugs,          \* slugs of the product
    Shapes,         \* billing, term and windows staff may give the plan
    Texts,          \* what staff type for an entitlement's value
    Numerals,       \* those of them that are whole numbers
    Definitions,    \* ids of rows of entitlements
    Builds,         \* ids of a release's row and of its object
    Numbers,        \* version numbers: subset of Version
    MaxRequests,    \* bound on the requests that are begun
    None

Types == {"boolean", "integer", "string"}
Value == [type : {"boolean"}, text : {"0", "1"}] \cup [type : {"integer"}, text : Numerals]
         \cup [type : {"string"}, text : Texts]
\* Of the days of a term and of a window of updates: whether they are set.
Shape == [billing : {"one_time", "monthly", "yearly"},
          licenseTerm : {"perpetual", "subscription", "fixed_days"},
          termDays : BOOLEAN, updatesDays : BOOLEAN]

ASSUME IdsAssumption == Builds # {} /\ Definitions # {} /\ Slugs # {}
ASSUME TextsAssumption == Numerals \subseteq Texts
ASSUME NumbersAssumption == Numbers # {} /\ Numbers \subseteq Version
ASSUME ShapesAssumption == Shapes \subseteq Shape
\* A release as it is listed.
Listed == [build : Builds, status : {"draft", "published", "yanked"}, version : Numbers,
           channel : {"stable", "beta"}, dated : BOOLEAN]
ASSUME NoneAssumption == None \notin [id : Definitions, type : Types] \cup Value \cup Listed
ASSUME RequestsAssumption == MaxRequests \in Nat

VARIABLES
    product,        \* the product's row
    plan,           \* the plan's row
    entitlement,    \* the row that defines the key, or None
    release,        \* rows of releases
    disk,           \* builds on the private disk
    left,           \* builds whose upload or removal died or failed
    desk,           \* how far each request is
    requests        \* requests begun

vars == <<product, plan, entitlement, release, disk, left, desk, requests>>

Product == [status : {"draft", "active", "retired"}, slug : Slugs]
Plan == [billing : {"one_time", "monthly", "yearly"},
         licenseTerm : {"perpetual", "subscription", "fixed_days"},
         termDays : BOOLEAN, updatesDays : BOOLEAN,
         archived : BOOLEAN, value : Value \cup {None}]
Definition == [id : Definitions, type : Types]
Row == [status : {"none", "draft", "published", "yanked"},
        version : Numbers, channel : {"stable", "beta"}, dated : BOOLEAN]
Request ==
    [at : {"idle"}]
    \cup [at : {"product"}, product : Product]
    \cup [at : {"plan"}, product : Product, plan : Plan]
    \cup [at : {"planSaved"}, plan : Plan]
    \cup [at : {"values"}, plan : Plan, entitlement : Definition \cup {None}]
    \cup [at : {"entitlement"}, entitlement : Definition]
    \cup [at : {"upload"}, version : Numbers]
    \cup [at : {"stored"}, version : Numbers, build : Builds]
    \cup [at : {"removing"}, build : Builds]
    \cup [at : {"release"}, build : Builds, row : Row]
Idle == [at |-> "idle"]

TypeOK ==
    /\ product \in Product
    /\ plan \in Plan
    /\ entitlement \in Definition \cup {None}
    /\ release \in [Builds -> Row]
    /\ disk \in SUBSET Builds
    /\ left \in SUBSET Builds
    /\ desk \in [Desks -> Request]
    /\ requests \in 0..MaxRequests

\* planShapeErrors has nothing to say.
PlanShape(shape) ==
    /\ (shape.billing = "one_time") <=> (shape.licenseTerm # "subscription")
    /\ (shape.licenseTerm = "fixed_days") <=> shape.termDays
    /\ shape.updatesDays => shape.licenseTerm = "perpetual"

\* A plan that takes a new shape.
Shaped(row, shape) ==
    [billing |-> shape.billing, licenseTerm |-> shape.licenseTerm, termDays |-> shape.termDays,
     updatesDays |-> shape.updatesDays, archived |-> row.archived, value |-> row.value]

Released == {b \in Builds : release[b].status # "none"}
NoRow == [status |-> "none", version |-> CHOOSE v \in Numbers : TRUE,
          channel |-> "stable", dated |-> FALSE]

\* A catalog as one person leaves it: some definition, a plan without a value
\* for it, and at most one build shipped.
Init ==
    /\ product \in [status : {"draft", "active"}, slug : {CHOOSE s \in Slugs : TRUE}]
    /\ \E shape \in {s \in Shapes : PlanShape(s)} :
          plan = Shaped([archived |-> FALSE, value |-> None], shape)
    /\ \/ entitlement = None
       \/ \E type \in Types : entitlement = [id |-> CHOOSE e \in Definitions : TRUE, type |-> type]
    /\ \E shipped \in {{}, {CHOOSE b \in Builds : TRUE}}, v \in Numbers :
          /\ disk = shipped
          /\ release = [b \in Builds |-> IF b \in shipped
                 THEN [status |-> "published", version |-> v, channel |-> "stable", dated |-> TRUE]
                 ELSE NoRow]
    /\ left = {}
    /\ desk = [d \in Desks |-> Idle]
    /\ requests = 0

\* The model saves the columns that differ from what it loaded.
Dirty(row, copy, new) == [c \in DOMAIN row |-> IF new[c] # copy[c] THEN new[c] ELSE row[c]]

\* The build and the definition a request has in hand.
Holds(d, b) == desk[d].at \in {"stored", "removing", "release"} /\ desk[d].build = b
Knows(d, id) ==
    desk[d].at \in {"values", "entitlement"} /\ desk[d].entitlement \in [id : {id}, type : Types]

Goto(d, request) == desk' = [desk EXCEPT ![d] = request]
Begin(d, request) ==
    /\ desk[d].at = "idle"
    /\ requests < MaxRequests
    /\ requests' = requests + 1
    /\ Goto(d, request)

-----------------------------------------------------------------------------
(* The product. *)

OpenProduct(d) ==
    /\ Begin(d, [at |-> "product", product |-> product])
    /\ UNCHANGED <<product, plan, entitlement, release, disk, left>>

\* Mutant of SaveProduct: every column is written.
SaveProductWhole(d) ==
    LET copy == desk[d].product IN
    /\ desk[d].at = "product"
    /\ \E new \in Product :
        /\ new.slug # copy.slug => copy.status = "draft"
        /\ new.status = "draft" => copy.status = "draft"
        /\ product' = new
    /\ Goto(d, Idle)
    /\ UNCHANGED <<plan, entitlement, release, disk, left, requests>>

\* updateProduct: the slug may change and draft may stay only while the copy is
\* a draft.
SaveProduct(d) ==
    LET copy == desk[d].product IN
    /\ desk[d].at = "product"
    /\ \E new \in Product :
        /\ new.slug # copy.slug => copy.status = "draft"
        /\ new.status = "draft" => copy.status = "draft"
        /\ product' = Dirty(product, copy, new)
    /\ Goto(d, Idle)
    /\ UNCHANGED <<plan, entitlement, release, disk, left, requests>>

-----------------------------------------------------------------------------
(* The plan. *)

OpenPlan(d) ==
    /\ Begin(d, [at |-> "plan", product |-> product, plan |-> plan])
    /\ UNCHANGED <<product, plan, entitlement, release, disk, left>>

\* updatePlan: what a customer agreed to is fixed once the product's copy has
\* left draft; the windows and what is left out here are not.
UpdatePlan(d) ==
    LET copy == desk[d].plan IN
    /\ desk[d].at = "plan"
    /\ \E shape \in Shapes :
        LET new == Shaped(copy, shape) IN
        /\ PlanShape(shape)
        /\ desk[d].product.status # "draft" =>
               new.billing = copy.billing /\ new.licenseTerm = copy.licenseTerm
        /\ plan' = Dirty(plan, copy, new)
        /\ Goto(d, [at |-> "planSaved", plan |-> new])
    /\ UNCHANGED <<product, entitlement, release, disk, left, requests>>

\* archive: whichever the copy is not.
SetPlanArchived(d) ==
    LET copy == desk[d].plan IN
    /\ desk[d].at = "plan"
    /\ plan' = Dirty(plan, copy, [copy EXCEPT !.archived = ~@])
    /\ Goto(d, Idle)
    /\ UNCHANGED <<product, entitlement, release, disk, left, requests>>

\* setPlanEntitlements reads the definitions first.
ReadDefinitions(d) ==
    /\ desk[d].at = "planSaved"
    /\ Goto(d, [at |-> "values", plan |-> desk[d].plan, entitlement |-> entitlement])
    /\ UNCHANGED <<product, plan, entitlement, release, disk, left, requests>>

\* Mutant of Coerce: any text is taken for a number.
CoerceAny(type, raw) ==
    CASE type = raw.type -> raw
      [] type = "boolean" /\ raw.text \in {"0", "1"} -> [raw EXCEPT !.type = type]
      [] type = "integer" /\ raw.type = "string" -> [raw EXCEPT !.type = type]
      [] OTHER -> None

\* coerceEntitlementValue: what cannot be read as the type is None.
Coerce(type, raw) ==
    CASE type = raw.type -> raw
      [] type = "boolean" /\ raw.text \in {"0", "1"} -> [raw EXCEPT !.type = type]
      [] type = "integer" /\ raw.type = "string" /\ raw.text \in Numerals -> [raw EXCEPT !.type = type]
      [] OTHER -> None

\* The values the form can give under a definition: one left empty is not set,
\* one of another type is refused, a key without a definition is dropped.
Typed(definition) ==
    IF definition = None THEN {None}
    ELSE {None} \cup {Coerce(definition.type, [type |-> "string", text |-> t]) : t \in Texts}

SaveValues(d) ==
    LET copy == desk[d].plan IN
    /\ desk[d].at = "values"
    /\ \E value \in Typed(desk[d].entitlement) :
        plan' = Dirty(plan, copy, [copy EXCEPT !.value = value])
    /\ Goto(d, Idle)
    /\ UNCHANGED <<product, entitlement, release, disk, left, requests>>

-----------------------------------------------------------------------------
(* The definition of the key. *)

\* A key has one definition; the unique index refuses a second.
CreateEntitlement(id, type) ==
    /\ entitlement = None
    /\ requests < MaxRequests
    /\ \A d \in Desks : ~Knows(d, id)
    /\ entitlement' = [id |-> id, type |-> type]
    /\ requests' = requests + 1
    /\ UNCHANGED <<product, plan, release, disk, left, desk>>

OpenEntitlement(d) ==
    /\ entitlement # None
    /\ Begin(d, [at |-> "entitlement", entitlement |-> entitlement])
    /\ UNCHANGED <<product, plan, entitlement, release, disk, left>>

\* Mutant of DeleteEntitlement: the plans keep their values.
DeleteEntitlementOnly(d) ==
    /\ desk[d].at = "entitlement"
    /\ entitlement' = IF entitlement = desk[d].entitlement THEN None ELSE entitlement
    /\ Goto(d, Idle)
    /\ UNCHANGED <<product, plan, release, disk, left, requests>>

\* deleteEntitlement, one transaction: the plans, locked, lose the key, and the
\* row that was loaded goes.
DeleteEntitlement(d) ==
    /\ desk[d].at = "entitlement"
    /\ plan' = [plan EXCEPT !.value = None]
    /\ entitlement' = IF entitlement = desk[d].entitlement THEN None ELSE entitlement
    /\ Goto(d, Idle)
    /\ UNCHANGED <<product, release, disk, left, requests>>

-----------------------------------------------------------------------------
(* Releases. *)

VersionFree(v) == \A b \in Released : release[b].version # v

\* upload: the version is looked up, the build measured and looked into.
BeginUpload(d, v) ==
    /\ VersionFree(v)
    /\ Begin(d, [at |-> "upload", version |-> v])
    /\ UNCHANGED <<product, plan, entitlement, release, disk, left>>

\* A fresh name on the disk.
MoveBuild(d) ==
    /\ desk[d].at = "upload"
    /\ \E b \in Builds \ (Released \cup disk) :
        /\ \A e \in Desks : ~Holds(e, b)
        /\ disk' = disk \cup {b}
        /\ Goto(d, [at |-> "stored", version |-> desk[d].version, build |-> b])
    /\ UNCHANGED <<product, plan, entitlement, release, left, requests>>

CreateRelease(d, channel) ==
    /\ desk[d].at = "stored"
    /\ VersionFree(desk[d].version)
    /\ release' = [release EXCEPT ![desk[d].build] =
           [status |-> "draft", version |-> desk[d].version, channel |-> channel, dated |-> FALSE]]
    /\ Goto(d, Idle)
    /\ UNCHANGED <<product, plan, entitlement, disk, left, requests>>

\* Mutant of RefuseRelease: nothing is cleaned up.
RefuseReleaseOnly(d) ==
    /\ desk[d].at = "stored"
    /\ Goto(d, Idle)
    /\ UNCHANGED <<product, plan, entitlement, release, disk, left, requests>>

\* The unique index has the version already, or the insert fails.
RefuseRelease(d) ==
    /\ desk[d].at = "stored"
    /\ Goto(d, [at |-> "removing", build |-> desk[d].build])
    /\ UNCHANGED <<product, plan, entitlement, release, disk, left, requests>>

RemoveBuild(d) ==
    /\ desk[d].at = "removing"
    /\ disk' = disk \ {desk[d].build}
    /\ left' = left \ {desk[d].build}
    /\ Goto(d, Idle)
    /\ UNCHANGED <<product, plan, entitlement, release, requests>>

OpenRelease(d, b) ==
    /\ b \in Released
    /\ Begin(d, [at |-> "release", build |-> b, row |-> release[b]])
    /\ UNCHANGED <<product, plan, entitlement, release, disk, left>>

\* An UPDATE of the row, unless it has gone.
SaveRelease(d, new) ==
    LET b == desk[d].build IN
    /\ release' = IF b \in Released
                  THEN [release EXCEPT ![b] = Dirty(@, desk[d].row, new)] ELSE release
    /\ Goto(d, Idle)
    /\ UNCHANGED <<product, plan, entitlement, disk, left, requests>>

\* One that the copy says is published is left as it is.
Publish(d) ==
    /\ desk[d].at = "release"
    /\ desk[d].row.status # "published"
    /\ SaveRelease(d, [desk[d].row EXCEPT !.status = "published", !.dated = TRUE])

Yank(d) ==
    /\ desk[d].at = "release"
    /\ desk[d].row.status = "published"
    /\ SaveRelease(d, [desk[d].row EXCEPT !.status = "yanked"])

\* The row goes, whatever it says by now, and then the build.
Discard(d) ==
    /\ desk[d].at = "release"
    /\ desk[d].row.status = "draft"
    /\ release' = [release EXCEPT ![desk[d].build] = NoRow]
    /\ Goto(d, [at |-> "removing", build |-> desk[d].build])
    /\ UNCHANGED <<product, plan, entitlement, disk, left, requests>>

\* A request is refused, fails or dies where it is; a failure to remove a build
\* is swallowed.
Leave(d) ==
    /\ desk[d].at # "idle"
    /\ left' = IF desk[d].at \in {"stored", "removing"} THEN left \cup {desk[d].build} ELSE left
    /\ Goto(d, Idle)
    /\ UNCHANGED <<product, plan, entitlement, release, disk, requests>>

-----------------------------------------------------------------------------
EditProduct(d) == OpenProduct(d) \/ SaveProduct(d)
EditPlan(d) == OpenPlan(d) \/ UpdatePlan(d) \/ SetPlanArchived(d) \/ ReadDefinitions(d) \/ SaveValues(d)
EditEntitlement(d) == OpenEntitlement(d) \/ DeleteEntitlement(d)
EditRelease(d) ==
    \/ \E v \in Numbers : BeginUpload(d, v)
    \/ \E channel \in {"stable", "beta"} : CreateRelease(d, channel)
    \/ \E b \in Builds : OpenRelease(d, b)
    \/ MoveBuild(d) \/ RefuseRelease(d) \/ RemoveBuild(d)
    \/ Publish(d) \/ Yank(d) \/ Discard(d)

Next ==
    \/ \E d \in Desks : EditProduct(d) \/ EditPlan(d) \/ EditEntitlement(d) \/ EditRelease(d) \/ Leave(d)
    \/ \E id \in Definitions, type \in Types : CreateEntitlement(id, type)

Spec == Init /\ [][Next]_vars

-----------------------------------------------------------------------------
(* Properties. *)

\* A product that has left draft never goes back to it (catalog_service.ts:
\* "Going back to it would re-open the slug"), although the rule is decided on
\* copies and several of them are saved.
NeverBackToDraft == [][product.status # "draft" => product'.status # "draft"]_vars

\* What the latest release of a channel is, whatever order the rows are read in.
Offer(order, channel) ==
    IF product.status = "draft" THEN None ELSE PickLatest(order, channel, None)
ListedAs(b) == [build |-> b, status |-> release[b].status, version |-> release[b].version,
                channel |-> release[b].channel, dated |-> release[b].dated]
Rows == {ListedAs(b) : b \in Released}

\* Nothing a channel could offer is newer than what it offers, by the order of
\* the reference; the offer has its build, and the date that update windows are
\* measured against (release_service.ts: pickLatest, releaseAccess).
OfferIsNewest ==
    \A channel \in {"stable", "beta"}, order \in SetToSeqs(Rows) :
        LET offer == Offer(order, channel)
            candidates == {r \in Rows : Offered(r, channel)}
        IN  product.status # "draft" /\ candidates # {} =>
                /\ offer \in candidates /\ offer.dated /\ offer.build \in disk
                /\ \A r \in candidates : ~Precedes(offer.version, r.version)

\* A release has its build, whoever uploads, publishes and discards at once, and
\* a build without a release is under way or was left by a request that died
\* (release_service.ts: upload and discard).
BuildIsThere ==
    /\ Released \subseteq disk
    /\ \A b \in disk \ Released :
          b \in left \/ \E d \in Desks : desk[d].at \in {"stored", "removing"} /\ desk[d].build = b

\* A request works on a copy that is no longer what the row says.
Outdated(d) ==
    LET r == desk[d] IN
    \/ r.at \in {"product", "plan"} /\ r.product # product
    \/ r.at \in {"plan", "planSaved", "values"} /\ r.plan # plan
    \/ r.at \in {"values", "entitlement"} /\ r.entitlement # entitlement
    \/ r.at = "release" /\ r.row # release[r.build]

ValueIsDefined == plan.value # None => entitlement # None /\ plan.value.type = entitlement.type

\* What has shipped is permanent (catalog_service.ts: the rule at its head, and
\* those of updatePlan, deleteEntitlement and discard), a plan keeps a shape that
\* makes sense and no value without its definition: only a request that works on
\* an outdated copy can break any of it.
PermanentUnlessOutdated ==
    [][(\A d \in Desks : ~Outdated(d)) =>
          /\ product.status # "draft" =>
                /\ product'.slug = product.slug
                /\ <<plan'.billing, plan'.licenseTerm>> = <<plan.billing, plan.licenseTerm>>
          /\ PlanShape(plan) => PlanShape(plan)'
          /\ ValueIsDefined => ValueIsDefined'
          /\ \A b \in Builds : release[b].status \in {"published", "yanked"} =>
                \E status \in {"published", "yanked"} :
                    release'[b] = [release[b] EXCEPT !.status = status]]_vars
=============================================================================
