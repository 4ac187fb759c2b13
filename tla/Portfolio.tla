------------------------------ MODULE Portfolio ------------------------------
(***************************************************************************)
(* Properties and the units in them, and the codes both get.  P-3 is known *)
(* by its number; a unit's code U-3xx is the property's number followed by *)
(* the unit's position in the property, padded to two digits of base Base  *)
(* (10 in the code).  Who occupies a unit is in Occupancy.                 *)
(***************************************************************************)
EXTENDS Desk, Sequences

CONSTANTS
    Doors,            \* units.no: what is written on the door
    Base,
    MaxProperties, MaxUnits    \* bounds: properties, and units of each

ASSUME PortfolioAssumption ==
    Base \in Nat \ {0} /\ MaxProperties \in Nat /\ MaxUnits \in Nat \ {0}

VARIABLES
    property,    \* properties table: number in the code -> status
    unit         \* units table: property -> its units' rows, as inserted

portfolio == <<property, unit>>

PropertyEndpoints == {"addProperty", "patchProperty", "archiveProperty"}

UnitEndpoints == {"addUnit", "patchUnitDoor"}

Properties == 1..MaxProperties

PropertyStatus == {"active", "archived"}

UnitRow == [no : Doors, code : Nat]

Registered(p) == property[p] # "none"

PortfolioTypeOK ==
    /\ property \in [Properties -> PropertyStatus \cup {"none"}]
    /\ \A p \in Properties :
          /\ DOMAIN unit[p] = 1..Len(unit[p]) /\ Len(unit[p]) <= MaxUnits
          /\ \A k \in DOMAIN unit[p] : unit[p][k] \in UnitRow
          /\ ~Registered(p) => unit[p] = <<>>

\* String(seq).padStart(2, '0') after the number of the property: a position
\* with a third digit makes the code longer.
UnitCode(p, seq) ==
    IF seq < Base * Base THEN p * (Base * Base) + seq ELSE p * (Base * Base * Base) + seq

\* The seeded properties, active, with units whose codes follow the rule.
PortfolioInit ==
    \E seeded \in 0..1, no \in Doors :
       /\ property = [p \in Properties |-> IF p <= seeded THEN "active" ELSE "none"]
       /\ unit = [p \in Properties |-> IF p <= seeded THEN <<[no |-> no, code |-> UnitCode(p, 1)]>>
                                       ELSE <<>>]
-----------------------------------------------------------------------------
(***************************************************************************)
(* PropertiesService.                                                      *)
(***************************************************************************)
NumberProperty(r) ==
    LET p == NextNumber({k \in Properties : Registered(k)}) IN
    /\ "addProperty" \in calls
    /\ req[r] = Idle
    /\ p \in Properties
    /\ Number(r, "properties", [pc |-> "propertyNumbered", p |-> p])
    /\ UNCHANGED portfolio

CommitProperty(r) ==
    LET p == req[r].p IN
    /\ At(r, "propertyNumbered")
    /\ ~Registered(p)        \* the unique index on the code
    /\ property' = [property EXCEPT ![p] = "active"]
    /\ Answer(r)
    /\ UNCHANGED unit

\* PATCH /properties/:code; s is the present status when not given.
LoadProperty(r, p, s) ==
    /\ Registered(p)
    /\ Begin(r, "patchProperty", [pc |-> "propertyLoaded", p |-> p, status |-> s])
    /\ UNCHANGED portfolio

LoadForArchive(r, p) ==
    /\ Registered(p)
    /\ Begin(r, "archiveProperty", [pc |-> "propertyLoaded", p |-> p, status |-> "archived"])
    /\ UNCHANGED portfolio

\* properties.save(property), its re-read and UPDATE in one step.
SaveProperty(r) ==
    /\ At(r, "propertyLoaded")
    /\ MayWrite(r, "properties")
    /\ property' = [property EXCEPT ![req[r].p] = req[r].status]
    /\ Answer(r)
    /\ UNCHANGED unit
-----------------------------------------------------------------------------
(***************************************************************************)
(* UnitsService: a property gets a unit, or a unit another door.           *)
(***************************************************************************)
FindProperty(r, p, no) ==
    /\ Registered(p)
    /\ Begin(r, "addUnit", [pc |-> "propertyFound", p |-> p, no |-> no])
    /\ UNCHANGED portfolio

CountUnits(p) == Len(unit[p])

NumberUnit(r) ==
    /\ At(r, "propertyFound")
    /\ Len(unit[req[r].p]) < MaxUnits
    /\ Number(r, "units", [pc |-> "unitNumbered", p |-> req[r].p, no |-> req[r].no,
                           n |-> CountUnits(req[r].p) + 1])
    /\ UNCHANGED portfolio

Taken(p, no) == \E k \in DOMAIN unit[p] : unit[p][k].no = no

\* A door that exists in the property is refused by its unique index, a code
\* that exists is not: units.code has an index that is not unique.
CommitUnit(r) ==
    LET q == req[r] IN
    /\ At(r, "unitNumbered")
    /\ unit' = IF Taken(q.p, q.no) THEN unit
               ELSE [unit EXCEPT ![q.p] = Append(@, [no |-> q.no, code |-> UnitCode(q.p, q.n)])]
    /\ Answer(r)
    /\ UNCHANGED property

LoadUnit(r, p, k, no) ==
    /\ Begin(r, "patchUnitDoor", [pc |-> "unitLoaded", p |-> p, k |-> k, no |-> no])
    /\ UNCHANGED portfolio

SaveUnit(r) ==
    LET q == req[r] IN
    /\ At(r, "unitLoaded")
    /\ MayWrite(r, "units")
    /\ unit' = IF Taken(q.p, q.no) THEN unit ELSE [unit EXCEPT ![q.p][q.k].no = q.no]
    /\ Answer(r)
    /\ UNCHANGED property
-----------------------------------------------------------------------------
PortfolioArrive(r) ==
    \/ NumberProperty(r)
    \/ \E p \in Properties :
          \/ \E s \in PropertyStatus : LoadProperty(r, p, s)
          \/ LoadForArchive(r, p)
          \/ \E no \in Doors : FindProperty(r, p, no)
          \/ \E no \in Doors, k \in DOMAIN unit[p] : LoadUnit(r, p, k, no)

PortfolioAdvance(r) ==
    \/ CommitProperty(r) \/ SaveProperty(r)
    \/ NumberUnit(r) \/ CommitUnit(r) \/ SaveUnit(r)
-----------------------------------------------------------------------------
\* No two units have the same code, as long as no property's positions need a
\* third digit: P-1 and P-11 with 101 and 1 units do share U-1101.
UnitCodesAreUnique ==
    (\A p \in Properties : Len(unit[p]) < Base * Base) =>
       \A p, q \in Properties : \A j \in DOMAIN unit[p], k \in DOMAIN unit[q] :
          unit[p][j].code = unit[q][k].code => p = q /\ j = k
=============================================================================
