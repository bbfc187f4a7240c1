---------------------------- MODULE SymbolTable -----------------------------
(***************************************************************************)
(* The symbol table (src/src/compiler/semantic/SymbolTable.h, .cpp): a     *)
(* tree of scopes and the functions' signatures.  A scope is named by the  *)
(* line of the node that opened it.  Symbols of a scope, unordered in the  *)
(* code, are in the order of their declarations here.                      *)
(***************************************************************************)
EXTENDS SourceProgram, Builtins, SequencesExt, FiniteSetsExt, TLC

GlobalScope == 0
NoSymbol == [name |-> "", type |-> "error", slot |-> 0, isInitialised |-> FALSE, scope |-> -1]

Scope(parent, kind) == [parent |-> parent, kind |-> kind, symbols |-> <<>>]

NewTable ==
    [scopes |-> GlobalScope :> Scope(-1, "GLOBAL"), functions |-> BuiltinFunctions]

-----------------------------------------------------------------------------
(* Functions. *)
\* declareFunction compares the new signature with earlier ones of the name,
\* index by index: where the new one is longer, the index is out of range.
CanDeclare(table, f) ==
    \A i \in DOMAIN table.functions :
        LET other == table.functions[i]
        IN other.name = f.name =>
            /\ Len(f.parameters) <= Len(other.parameters)
            /\ f.parameters # other.parameters

declareFunction(table, f) == [table EXCEPT !.functions = Append(@, f)]

getFunctionSymbols(table, name) == {f \in ToSet(table.functions) : f.name = name}

-----------------------------------------------------------------------------
(* Scopes. *)
enterScope(table, id, parent, kind) ==
    [table EXCEPT !.scopes = (id :> Scope(parent, kind)) @@ @]

declareSymbol(table, id, name, type, slot, isInitialised) ==
    [table EXCEPT !.scopes[id].symbols =
        Append(@, [name |-> name, type |-> type, slot |-> slot,
                   isInitialised |-> isInitialised, scope |-> id])]

declaredIn(table, id, name) == \E i \in DOMAIN table.scopes[id].symbols :
                                    table.scopes[id].symbols[i].name = name

IndexOfSymbol(table, id, name) ==
    LET symbols == table.scopes[id].symbols
    IN CHOOSE i \in DOMAIN symbols : symbols[i].name = name

SymbolIn(table, id, name) == table.scopes[id].symbols[IndexOfSymbol(table, id, name)]

\* Behind a function's scope only the global scope is searched.
RECURSIVE lookup(_, _, _)
lookup(table, id, name) ==
    IF declaredIn(table, id, name) THEN SymbolIn(table, id, name)
    ELSE IF id = GlobalScope THEN NoSymbol
    ELSE lookup(table, IF table.scopes[id].kind = "FUNCTION" THEN GlobalScope
                       ELSE table.scopes[id].parent, name)

initialise(table, symbol) ==
    IF symbol = NoSymbol THEN table
    ELSE LET i == IndexOfSymbol(table, symbol.scope, symbol.name)
         IN [table EXCEPT !.scopes[symbol.scope].symbols[i].isInitialised = TRUE]

NoLoop == -1
RECURSIVE lookupLoopScope(_, _)
lookupLoopScope(table, id) ==
    CASE table.scopes[id].kind \in {"GLOBAL", "FUNCTION"} -> NoLoop
      [] table.scopes[id].kind = "LOOP"                   -> id
      [] OTHER -> lookupLoopScope(table, table.scopes[id].parent)

-----------------------------------------------------------------------------
(***************************************************************************)
(* Slots of locals, once all scopes are known: from -1 downwards behind    *)
(* those of the scopes around, up to the function or the global scope.     *)
(* Scopes beside one another share slots.                                  *)
(***************************************************************************)
isArgument(symbol) == symbol.slot > 0
Locals(table, id) == SelectSeq(table.scopes[id].symbols, LAMBDA s : ~ isArgument(s))
Children(table, id) == {k \in DOMAIN table.scopes : table.scopes[k].parent = id}

RECURSIVE LocalsAbove(_, _)
LocalsAbove(table, id) ==
    LET parent == table.scopes[id].parent
    IN IF parent = GlobalScope THEN 0
       ELSE LocalsAbove(table, parent) + Len(Locals(table, parent))

\* Fault: each scope begins at -1.
localSlot_Flat(table, symbol) ==
    IF isArgument(symbol) THEN symbol.slot
    ELSE LET locals == Locals(table, symbol.scope)
         IN - (CHOOSE i \in DOMAIN locals : locals[i].name = symbol.name)

localSlot(table, symbol) ==
    IF isArgument(symbol) THEN symbol.slot
    ELSE LET locals == Locals(table, symbol.scope)
         IN - LocalsAbove(table, symbol.scope)
              - (CHOOSE i \in DOMAIN locals : locals[i].name = symbol.name)

RECURSIVE calculateNumberOfLocalSlots(_, _)
calculateNumberOfLocalSlots(table, id) ==
    Len(Locals(table, id))
      + Max({0} \cup {calculateNumberOfLocalSlots(table, k) : k \in Children(table, id)})
=============================================================================
