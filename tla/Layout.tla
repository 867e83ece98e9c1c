------------------------------- MODULE Layout -------------------------------
(***************************************************************************)
(* Types, and where the members of a struct sit: Type of                   *)
(* frontend/semantic.rs and frontend/layout.rs.                            *)
(*                                                                         *)
(* A table of structs is a function from the defined tags to layouts; a    *)
(* layout has the members in their order, each with its name, type and     *)
(* offset, the size and the alignment.                                     *)
(***************************************************************************)
EXTENDS Syntax, Widths

IntegerSizes == [kind \in {"char", "int", "long"} |->
                    CASE kind = "char" -> 1 [] kind = "int" -> 4 [] kind = "long" -> 8]

WordSize == 8

IsInteger(type)   == type[1] \in DOMAIN IntegerSizes
IsPointer(type)   == type[1] = "pointer"
IsArray(type)     == type[1] = "array"
IsStruct(type)    == type[1] = "struct"
IsAggregate(type) == IsArray(type) \/ IsStruct(type)

SignedInt == IntType("signed")

\* Type::from_ctype fails for an array without a size.
RECURSIVE HasUnknownSize(_)
HasUnknownSize(type) ==
    \/ IsArray(type) /\ (type[3] = -1 \/ HasUnknownSize(type[2]))
    \/ IsPointer(type) /\ HasUnknownSize(type[2])

Promoted(type) == IF type[1] = "char" THEN SignedInt ELSE type

\* The usual arithmetic conversions.
Common(left, right) ==
    LET l == Promoted(left)
        r == Promoted(right)
    IN  CASE IntegerSizes[l[1]] > IntegerSizes[r[1]] -> l
          [] IntegerSizes[l[1]] < IntegerSizes[r[1]] -> r
          [] l = r   -> l
          [] OTHER   -> <<l[1], "unsigned">>

-----------------------------------------------------------------------------
AlignUp(value, alignment) == ((value + alignment - 1) \div alignment) * alignment

RECURSIVE SizeOf(_, _)
SizeOf(structs, type) ==
    CASE IsInteger(type) -> IntegerSizes[type[1]]
      [] IsPointer(type) -> WordSize
      [] IsArray(type)   -> SizeOf(structs, type[2]) * type[3]
      [] IsStruct(type)  -> structs[type[2]].size

RECURSIVE AlignOf(_, _)
AlignOf(structs, type) ==
    CASE IsInteger(type) -> IntegerSizes[type[1]]
      [] IsPointer(type) -> WordSize
      [] IsArray(type)   -> AlignOf(structs, type[2])
      [] IsStruct(type)  -> structs[type[2]].align

RECURSIVE IsComplete(_, _)
IsComplete(structs, type) ==
    CASE IsArray(type)  -> IsComplete(structs, type[2])
      [] IsStruct(type) -> type[2] \in DOMAIN structs
      [] OTHER          -> type # VoidType

\* Mutant: a member starts where the one before it ends.
PlacePacked(structs, layout, name, type) ==
    [ members |-> Append(layout.members, [name |-> name, type |-> type, offset |-> layout.size]),
      size    |-> layout.size + SizeOf(structs, type),
      align   |-> Max({layout.align, AlignOf(structs, type)}) ]

PlaceMember(structs, layout, name, type) ==
    LET offset == AlignUp(layout.size, AlignOf(structs, type))
    IN  [ members |-> Append(layout.members, [name |-> name, type |-> type, offset |-> offset]),
          size    |-> offset + SizeOf(structs, type),
          align   |-> Max({layout.align, AlignOf(structs, type)}) ]

\* StructTable::lay_out, of pairs of a name and a type.
LayOut(structs, members) ==
    LET placed == FoldLeft(LAMBDA layout, member : PlaceMember(structs, layout, member[1], member[2]),
                           [members |-> <<>>, size |-> 0, align |-> 1], members)
    IN  [placed EXCEPT !.size = AlignUp(@, placed.align)]

MembersNamed(layout, name) == {member \in ToSet(layout.members) : member.name = name}
MemberOf(layout, name)     == CHOOSE member \in MembersNamed(layout, name) : TRUE

=============================================================================
