---------------------------- MODULE LookupCache ----------------------------
(***************************************************************************)
(* LookupDataValueToKeyDatabaseResolverFructose: calls that turn the value *)
(* of a lookup table into its key through a cached copy of the table, and  *)
(* that, when the value is missing, remove the copy and look once more.    *)
(*                                                                         *)
(* One table and its cache entry; other tables have keys of their own.     *)
(* Calls run in threads of their own and share the cache.  ICache is not   *)
(* in the repository: its GetOrAdd is taken to run the loader outside any  *)
(* lock, and to keep either the list just loaded or one stored meanwhile,  *)
(* which includes every cache that does less.  Rows come and go by hand.   *)
(* Names are unique in the tables the resolver is meant for (UKC__..Name), *)
(* so a row is a value's key; 0 is default(T), the key of no row.          *)
(***************************************************************************)
EXTENDS Integers

CONSTANTS
  Values,        \* names a row can have
  NoValue,       \* a null or empty value in the request
  Resolvers,     \* calls of Resolve that can be under way at a time
  MaxKey         \* bound: rows ever inserted

ASSUME ValuesAssumption == Values # {} /\ NoValue \notin Values
ASSUME MaxKeyAssumption == MaxKey \in Nat

VARIABLES
  rows,          \* the table: the key of each value
  lastKey,       \* its identity column
  entry,         \* what the cache holds for the table
  call,          \* the calls
  certain        \* history: calls that must find their value (see Certain)

lookupVars == <<rows, lastKey, entry, call, certain>>

Default == 0
Lists == [Values -> 0..MaxKey]
NoList == [v \in Values |-> -1]

Idle == [pc |-> "idle", value |-> NoValue, list |-> NoList, again |-> FALSE,
         result |-> Default]

LookupInit ==
  /\ rows = [v \in Values |-> Default]
  /\ lastKey = 0
  /\ entry = NoList
  /\ call = [c \in Resolvers |-> Idle]
  /\ certain = {}

CallAt(c, pc) == call[c].pc = pc
CallGoto(c, pc) == call' = [call EXCEPT ![c].pc = pc]
CallGotoWith(c, pc, list) == call' = [call EXCEPT ![c].pc = pc, ![c].list = list]

\* v is in the table, and so in every list that is loaded but not stored yet.
Certain(v) ==
  /\ rows[v] # Default
  /\ \A c \in Resolvers : CallAt(c, "store") => call[c].list[v] # Default

(***************************************************************************)
(* Resolve                                                                 *)
(***************************************************************************)
\* A null or empty value has no key.
ResolveNothing(c) ==
  /\ CallAt(c, "idle")
  /\ CallGoto(c, "return")
  /\ UNCHANGED <<rows, lastKey, entry, certain>>

Resolve(c, v) ==
  /\ CallAt(c, "idle")
  /\ call' = [call EXCEPT ![c] = [Idle EXCEPT !.pc = "get", !.value = v]]
  /\ certain' = IF Certain(v) THEN certain \union {c} ELSE certain
  /\ UNCHANGED <<rows, lastKey, entry>>

\* GetOrAdd: the list in the cache, or else the loader's.
Hit(c) ==
  /\ CallAt(c, "get") /\ entry # NoList
  /\ CallGotoWith(c, "find", entry)
  /\ UNCHANGED <<rows, lastKey, entry, certain>>

Absent(c) ==
  /\ CallAt(c, "get") /\ entry = NoList
  /\ CallGoto(c, "load")
  /\ UNCHANGED <<rows, lastKey, entry, certain>>

\* The loader: one SELECT of the whole table.
GetDictionaryToCache(c) ==
  /\ CallAt(c, "load")
  /\ CallGotoWith(c, "store", rows)
  /\ UNCHANGED <<rows, lastKey, entry, certain>>

Store(c) ==
  /\ CallAt(c, "store")
  /\ \/ /\ entry' = call[c].list
        /\ CallGoto(c, "find")
     \/ /\ entry # NoList
        /\ CallGotoWith(c, "find", entry)
        /\ UNCHANGED entry
  /\ UNCHANGED <<rows, lastKey, certain>>

\* Mutant: one look only.
OnMissOnce(again) == "return"

\* A call that did not find its value looks once more.
OnMiss(again) == IF again THEN "return" ELSE "remove"

\* The key of a value in a list, default(T) when it is not there.
KeyOf(list, v) == list[v]

GetLookupValue(c) ==
  /\ CallAt(c, "find")
  /\ LET key == KeyOf(call[c].list, call[c].value) IN
       call' = [call EXCEPT ![c].result = key,
                            ![c].pc = IF key = Default THEN OnMiss(call[c].again)
                                      ELSE "return"]
  /\ UNCHANGED <<rows, lastKey, entry, certain>>

\* Mutant: the second look-up finds the same list again.
Kept == entry

AfterRemove == NoList

Remove(c) ==
  /\ CallAt(c, "remove")
  /\ entry' = AfterRemove
  /\ call' = [call EXCEPT ![c].pc = "get", ![c].again = TRUE]
  /\ UNCHANGED <<rows, lastKey, certain>>

Return(c) ==
  /\ CallAt(c, "return")
  /\ call' = [call EXCEPT ![c] = Idle]
  /\ certain' = certain \ {c}
  /\ UNCHANGED <<rows, lastKey, entry>>

ResolveStep(c) ==
  \/ Hit(c) \/ Absent(c) \/ GetDictionaryToCache(c) \/ Store(c)
  \/ GetLookupValue(c) \/ Remove(c) \/ Return(c)

(***************************************************************************)
(* The surroundings                                                        *)
(***************************************************************************)
\* The timeout of the entry, 24 hours unless the request says otherwise.
Expire ==
  /\ entry # NoList /\ entry' = NoList
  /\ UNCHANGED <<rows, lastKey, call, certain>>

InsertRow(v) ==
  /\ rows[v] = Default /\ lastKey < MaxKey
  /\ lastKey' = lastKey + 1
  /\ rows' = [rows EXCEPT ![v] = lastKey']
  /\ UNCHANGED <<entry, call, certain>>

\* A call for a value that goes can no longer count on finding it.
DeleteRow(v) ==
  /\ rows[v] # Default
  /\ rows' = [rows EXCEPT ![v] = Default]
  /\ certain' = {c \in certain : call[c].value # v}
  /\ UNCHANGED <<lastKey, entry, call>>

LookupNext ==
  \/ \E c \in Resolvers :
       \/ ResolveNothing(c)
       \/ \E v \in Values : Resolve(c, v)
       \/ ResolveStep(c)
  \/ Expire
  \/ \E v \in Values : InsertRow(v) \/ DeleteRow(v)

\* A call that has begun runs to its end; nothing else has to happen.
LookupSpec == LookupInit /\ [][LookupNext]_lookupVars /\ \A c \in Resolvers : WF_lookupVars(ResolveStep(c))

(***************************************************************************)
(* Properties                                                              *)
(***************************************************************************)
Pcs == {"idle", "get", "load", "store", "find", "remove", "return"}

\* The types of the table, the cache entry and the calls of Resolve.
LookupTypeOK ==
  /\ rows \in Lists
  /\ lastKey \in 0..MaxKey
  /\ entry \in Lists \union {NoList}
  /\ call \in [Resolvers -> [pc : Pcs, value : Values \union {NoValue},
                             list : Lists \union {NoList}, again : BOOLEAN,
                             result : 0..MaxKey]]
  /\ certain \subseteq Resolvers

Missed(c) == CallAt(c, "return") /\ call[c].value # NoValue /\ call[c].result = Default

\* Looking twice heals a stale list: Resolve finds a value that is in the
\* table throughout the call, whatever the cache held when it began, unless
\* a list read before the value was inserted was still on its way then.
HealingFinds == \A c \in certain : ~Missed(c)

\* A value that stays in the table is found at last by every call: stale
\* lists still on their way when it was inserted are not put back for ever.
HealsEventually ==
  \A v \in Values :
    <>[](rows[v] # Default) =>
      <>[](\A c \in Resolvers : call[c].value = v => ~Missed(c))
=============================================================================
