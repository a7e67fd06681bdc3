------------------------------ MODULE Segments ------------------------------
(***************************************************************************)
(* The filter groups that segments, broadcasts, exports and triggers use   *)
(* to select contacts (src/audiences/utils/segment_builder).  The builder  *)
(* turns them into SQL: conditions it does not know are left out, a group  *)
(* left without conditions is left out too, and a column without a value   *)
(* makes a comparison neither true nor false, so that its negation does    *)
(* not select the row.                                                     *)
(***************************************************************************)
EXTENDS Naturals, FiniteSets

CONSTANTS
    NoText,     \* the value of an empty column (NULL)
    TextHolds   \* TextHolds[operation, column, value]: LIKE and the comparisons

TextFields == {"email", "firstName", "lastName"}
TextOperations == {"eq", "startsWith", "endsWith", "gte", "lte", "contains", "notContains"}

\* A condition the switch statements have no case for builds nothing.
LeftOut(condition) ==
    \/ condition.field = "subscribedAt"
    \/ condition.field \in TextFields /\ condition.operation \notin TextOperations

\* TagsSegmentBuilder throws for any other operation on tags.
Buildable(filter) ==
    \A group \in filter.groups : \A condition \in group.conditions :
        condition.field = "tags" => condition.operation \in {"contains", "notContains"}

Truth(b) == IF b THEN "true" ELSE "false"

TextCondition(condition, text) ==
    IF text = NoText THEN "null"
    ELSE Truth(TextHolds[condition.operation, text, condition.value])

TagCondition(condition, tags) ==
    Truth((condition.operation = "contains") = (condition.value \cap tags # {}))

\* What one condition says of a contact.
Says(condition, contact) ==
    IF condition.field = "tags"
      THEN TagCondition(condition, contact.tags)
      ELSE TextCondition(condition, contact[condition.field])

\* Mutant: the parts are joined by the other connective.
ClauseSwapped(type, parts) ==
    LET decisive == IF type = "OR" THEN "false" ELSE "true"
    IN  IF parts = {} THEN "noClause"
        ELSE IF decisive \in parts THEN decisive
        ELSE IF "null" \in parts THEN "null" ELSE Truth(type = "OR")

\* and(...) and or(...) over three-valued parts; without parts there is no clause.
Clause(type, parts) ==
    LET decisive == IF type = "AND" THEN "false" ELSE "true"
    IN  IF parts = {} THEN "noClause"
        ELSE IF decisive \in parts THEN decisive
        ELSE IF "null" \in parts THEN "null" ELSE Truth(type = "AND")

GroupClause(group, contact) ==
    Clause(group.type,
           {Says(condition, contact) :
               condition \in {x \in group.conditions : ~LeftOut(x)}})

FilterClause(filter, contact) ==
    Clause(filter.type,
           {GroupClause(group, contact) : group \in filter.groups} \ {"noClause"})

\* WHERE keeps the rows it is true of, and all rows when there is no clause.
Selects(filter, contact) == FilterClause(filter, contact) \in {"true", "noClause"}
=============================================================================
