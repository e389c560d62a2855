------------------------------- MODULE Catalogue -------------------------------
(***************************************************************************)
(* The catalogue of what is built and sold: complexes, their buildings and *)
(* the apartments in them (backend/internal/handler/construction.go,       *)
(* service/construction.go, repository/construction.go, migration 000002). *)
(*                                                                         *)
(* Each handler checks that the body is complete and runs one statement,   *)
(* so each is one step.  A PUT writes every column of the row, the parent  *)
(* included: staff may move a building to another complex and an apartment *)
(* to another building.  The other columns are data no other part of this  *)
(* module reads; DealBooking has the price and the status of an apartment. *)
(* The deletions of the handler have no route.                             *)
(***************************************************************************)
EXTENDS Naturals

CONSTANTS
  Complexes, Buildings, Apartments,   \* pools of ids
  NULL                                \* the parent of a row that does not exist

ASSUME NullIsNoId == NULL \notin Complexes \cup Buildings

VARIABLES
  complexes,    \* the ids in residential_complexes
  complexOf,    \* complexOf[b]: residential_complex_id of building b
  buildingOf    \* buildingOf[a]: building_id of apartment a

catalogueVars == <<complexes, complexOf, buildingOf>>

\* The rows of the tables.
KnownBuildings == {b \in Buildings : complexOf[b] # NULL}
KnownApartments == {a \in Apartments : buildingOf[a] # NULL}

\* With the foreign keys.
CatalogueTypeOK ==
  /\ complexes \subseteq Complexes
  /\ complexOf \in [Buildings -> complexes \cup {NULL}]
  /\ buildingOf \in [Apartments -> KnownBuildings \cup {NULL}]

CatalogueInit ==
  /\ complexes = {}
  /\ complexOf = [b \in Buildings |-> NULL]
  /\ buildingOf = [a \in Apartments |-> NULL]
--------------------------------------------------------------------------------
CreateComplex(c) ==
  /\ c \notin complexes
  /\ complexes' = complexes \cup {c}
  /\ UNCHANGED <<complexOf, buildingOf>>

\* Variant: the foreign key is missing.
CreateBuildingAnywhere(b, c) ==
  /\ b \notin KnownBuildings
  /\ complexOf' = [complexOf EXCEPT ![b] = c]
  /\ UNCHANGED <<complexes, buildingOf>>

\* The foreign key refuses an unknown complex.
CreateBuilding(b, c) ==
  /\ b \notin KnownBuildings /\ c \in complexes
  /\ complexOf' = [complexOf EXCEPT ![b] = c]
  /\ UNCHANGED <<complexes, buildingOf>>

UpdateBuilding(b, c) ==
  /\ b \in KnownBuildings /\ c \in complexes
  /\ complexOf' = [complexOf EXCEPT ![b] = c]
  /\ UNCHANGED <<complexes, buildingOf>>

CreateApartment(a, b) ==
  /\ a \notin KnownApartments /\ b \in KnownBuildings
  /\ buildingOf' = [buildingOf EXCEPT ![a] = b]
  /\ UNCHANGED <<complexes, complexOf>>

UpdateApartment(a, b) ==
  /\ a \in KnownApartments /\ b \in KnownBuildings
  /\ buildingOf' = [buildingOf EXCEPT ![a] = b]
  /\ UNCHANGED <<complexes, complexOf>>

CatalogueNext ==
  \/ \E c \in Complexes : CreateComplex(c)
  \/ \E b \in Buildings, c \in Complexes : CreateBuilding(b, c) \/ UpdateBuilding(b, c)
  \/ \E a \in Apartments, b \in Buildings : CreateApartment(a, b) \/ UpdateApartment(a, b)
================================================================================
