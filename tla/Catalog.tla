------------------------------- MODULE Catalog -------------------------------
(* The catalog of a tenant and the versioned package of one property          *)
(* (internal/catalog): items and bundles are only ever inserted; a version of *)
(* the package is drafted with the review summary of its lines, and then      *)
(* activated or rejected.  An activation supersedes in its transaction the    *)
(* versions it finds active when it looks for them.                           *)
EXTENDS Requests, SequencesExt

CONSTANTS Sku,
          Stocked,                \* items and versions a tenant may have already
          MaxItems, MaxVersions   \* bounds: items and bundles, versions of the package

VARIABLES items,         \* catalog_items
          evidence,      \* catalog_claim_evidence, by its item
          templates,     \* package_templates: sequences of items
          versions,      \* property_package_versions with their property_package_items
          raced          \* versions activated after another activation had looked

tables == <<items, evidence, templates, versions>>
vars == <<tables, raced, pc, requests>>

Init ==
  /\ \E s \in Stocked : items = s.items /\ versions = s.versions
  /\ evidence = <<>>
  /\ templates = <<>>
  /\ raced = {}
  /\ NoRequests

Active == {v \in DOMAIN versions : versions[v].status = "active"}

----------------------------------------------------------------------------
(* Items, claims and bundles                                                 *)

InsertCatalogItem(item) ==
  /\ Len(items) < MaxItems
  /\ \A i \in DOMAIN items : items[i].sku # item.sku
  /\ items' = Append(items, item)

CreateCatalogItem(item) == InsertCatalogItem(item) /\ UNCHANGED <<evidence, templates, versions, raced>>
handleCreateItem(item) == Served /\ CreateCatalogItem(item)

InsertClaimEvidence(i) == Len(evidence) < MaxItems /\ evidence' = Append(evidence, i)

AddClaimEvidence(i) == InsertClaimEvidence(i) /\ UNCHANGED <<items, templates, versions, raced>>
handleAddClaimEvidence(i) == Served /\ AddClaimEvidence(i)

InsertPackageTemplate(bundle) == Len(templates) < MaxItems /\ templates' = Append(templates, bundle)

OncePerSku(lines) == IsInjective([k \in DOMAIN lines |-> items[lines[k]].sku])

CreatePackageTemplate(bundle) ==
  /\ OncePerSku(bundle)
  /\ InsertPackageTemplate(bundle)
  /\ UNCHANGED <<items, evidence, versions, raced>>
handleCreateTemplate(bundle) == Served /\ CreatePackageTemplate(bundle)

----------------------------------------------------------------------------
(* The lines of a package: the items asked for, then those of the bundles     *)

ensureItemUsable(i) == items[i].status = "active"

resolvePackageLines(direct, bundles) == direct \o FlattenSeq([b \in DOMAIN bundles |-> templates[bundles[b]]])

----------------------------------------------------------------------------
(* The versions of the package                                               *)

NextVersionNumber == Len(versions) + 1

InsertPackageVersion(lines) ==
  /\ Len(versions) < MaxVersions
  /\ versions' = Append(versions, [number |-> NextVersionNumber, status |-> "draft", lines |-> lines])

handleCreatePackageVersion(c, direct, bundles) ==
  LET lines == resolvePackageLines(direct, bundles) IN
  /\ lines # <<>>
  /\ \A k \in DOMAIN lines : ensureItemUsable(lines[k])
  /\ OncePerSku(lines)
  /\ Begin(c, [op |-> "create", lines |-> lines])
  /\ UNCHANGED <<tables, raced>>

CreatePropertyPackageVersion(c) ==
  /\ Under(c, "create")
  /\ InsertPackageVersion(pc[c].lines)
  /\ Done(c)
  /\ UNCHANGED <<items, evidence, templates, raced>>

handleActivatePackageVersion(c, v) ==
  /\ versions[v].status = "draft"
  /\ Begin(c, [op |-> "activate", version |-> v])
  /\ UNCHANGED <<tables, raced>>

(* The statement takes what was committed when it began to be active.         *)
SupersedeActiveVersions(c) ==
  /\ Under(c, "activate")
  /\ Goes(c, [op |-> "activating", version |-> pc[c].version, superseded |-> Active])
  /\ UNCHANGED <<tables, raced>>

(* A fault: what is active stays so.                                          *)
ActivateBeside(v, superseded) ==
  /\ versions[v].status = "draft"
  /\ versions' = [versions EXCEPT ![v].status = "active"]
ActivateStatement(v, superseded) ==
  /\ versions[v].status = "draft"
  /\ versions' = [w \in DOMAIN versions |->
                    IF w = v THEN [versions[w] EXCEPT !.status = "active"]
                    ELSE IF w \in superseded /\ w \in Active THEN [versions[w] EXCEPT !.status = "superseded"]
                    ELSE versions[w]]

Others(c) == \E d \in Client \ {c} : Under(d, "activating")

ActivatePropertyPackageVersion(c) ==
  LET f == pc[c] IN
  /\ Under(c, "activating")
  /\ ActivateStatement(f.version, f.superseded)
  /\ raced' = IF Others(c) THEN raced \union {f.version} ELSE raced
  /\ Done(c)
  /\ UNCHANGED <<items, evidence, templates>>

RejectStatement(v) ==
  /\ versions[v].status = "draft"
  /\ versions' = [versions EXCEPT ![v].status = "rejected"]

handleRejectPackageVersion(c, v) ==
  /\ versions[v].status = "draft"
  /\ Begin(c, [op |-> "reject", version |-> v])
  /\ UNCHANGED <<tables, raced>>

RejectPropertyPackageVersion(c) ==
  /\ Under(c, "reject")
  /\ RejectStatement(pc[c].version)
  /\ Done(c)
  /\ UNCHANGED <<items, evidence, templates, raced>>

----------------------------------------------------------------------------

Abandon(c) == Dropped(c) /\ UNCHANGED <<tables, raced>>

Lines == SeqOf(DOMAIN items, 2) \ {<<>>}

Next ==
  \/ \E item \in [sku : Sku, status : {"active", "disabled"}] : handleCreateItem(item)
  \/ \E i \in DOMAIN items : handleAddClaimEvidence(i)
  \/ \E bundle \in Lines : handleCreateTemplate(bundle)
  \/ \E c \in Client :
       \/ \E direct \in Lines \union {<<>>}, bundles \in SeqOf(DOMAIN templates, 1) : handleCreatePackageVersion(c, direct, bundles)
       \/ \E v \in DOMAIN versions : handleActivatePackageVersion(c, v) \/ handleRejectPackageVersion(c, v)
       \/ CreatePropertyPackageVersion(c) \/ SupersedeActiveVersions(c)
       \/ ActivatePropertyPackageVersion(c) \/ RejectPropertyPackageVersion(c)
       \/ Abandon(c)

Spec == Init /\ [][Next]_vars

----------------------------------------------------------------------------

(* Of the active versions one at most was activated with no other activation  *)
(* under way that had looked already, and a version is superseded only for    *)
(* another that is active.                                                    *)
PackageIsReplaced ==
  /\ \A v, w \in Active \ raced : v = w
  /\ (\E v \in DOMAIN versions : versions[v].status = "superseded") => Active # {}

(* "Any previously active version for the property is superseded": does not   *)
(* hold, of two activations neither finds the version of the other.           *)
OneActive == \A v, w \in Active : v = w
=============================================================================
