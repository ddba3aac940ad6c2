-------------------------- MODULE InstrumentCatalog --------------------------
(***************************************************************************)
(* What the screens of the web client share of the instruments: a screen   *)
(* asks for the symbols it shows (resolve), in lookups of a limited size,  *)
(* one after the other, and leaves to another screen's lookup what that    *)
(* one asks for already; a search shares what it found (remember).         *)
(*                                                                         *)
(* A call of resolve is used once.  The code keeps the lookups under way   *)
(* by symbol in a map `pending`; here they are the chunks of the calls,    *)
(* which never overlap.                                                    *)
(***************************************************************************)
EXTENDS Naturals, FiniteSets

CONSTANTS
    Symbols,
    Listed,      \* those the desk lists, or listed once
    Calls,       \* calls of resolve, from any screen
    LookupLimit  \* the most symbols one lookup takes (50 in the code)

VARIABLES
    step,     \* of a call: "idle", "resolving" or "returned"
    symbols,  \* what it was asked for
    rest,     \* what it still has to look up
    chunk,    \* what its lookup under way asks for, {} if none is
    underWay, \* the other lookups it waits for, each a call and a chunk
    asked, known, missing,
    lookupError, \* whether the last lookup failed
    answered, \* symbols a lookup has answered (history)
    failed    \* symbols of a lookup that failed (history)

calls == <<step, symbols, rest, chunk, underWay>>
catalogVars == <<calls, asked, known, missing, lookupError, answered, failed>>

CatalogInit ==
    /\ step = [c \in Calls |-> "idle"]
    /\ symbols = [c \in Calls |-> {}] /\ rest = [c \in Calls |-> {}]
    /\ chunk = [c \in Calls |-> {}] /\ underWay = [c \in Calls |-> {}]
    /\ asked = {} /\ known = {} /\ missing = {}
    /\ lookupError = FALSE
    /\ answered = {} /\ failed = {}

-----------------------------------------------------------------------------
\* The next lookup of a call that wants these: as many of them as one takes.
Chunks(wanted) ==
    {p \in SUBSET wanted : Cardinality(p) = IF Cardinality(wanted) <= LookupLimit THEN Cardinality(wanted) ELSE LookupLimit}

\* Send the next lookup, if anything is left.
LookUp(c, wanted) ==
    \E p \in Chunks(wanted) :
        /\ chunk' = [chunk EXCEPT ![c] = p]
        /\ rest' = [rest EXCEPT ![c] = wanted \ p]

\* The lookups that ask for one of these now.
Pending(wanted) == {<<d, chunk[d]>> : d \in {d \in Calls : chunk[d] \cap wanted # {}}}

\* A screen asks: what nobody has asked for is the call's to look up, and what is being
\* looked up at this moment it waits for.
Resolve(c, wanted) ==
    /\ step[c] = "idle"
    /\ step' = [step EXCEPT ![c] = "resolving"]
    /\ symbols' = [symbols EXCEPT ![c] = wanted]
    /\ underWay' = [underWay EXCEPT ![c] = Pending(wanted)]
    /\ asked' = asked \cup wanted
    /\ LookUp(c, wanted \ asked)
    /\ UNCHANGED <<known, missing, lookupError, answered, failed>>

\* The lookup is answered, with those of its symbols that are listed; the next one goes.
LookupAnswered(c) ==
    /\ chunk[c] # {}
    /\ known' = known \cup (chunk[c] \cap Listed)
    /\ asked' = asked \cup (chunk[c] \cap Listed)
    /\ missing' = missing \cup (chunk[c] \ Listed)
    /\ answered' = answered \cup chunk[c]
    /\ lookupError' = FALSE
    /\ LookUp(c, rest[c])
    /\ UNCHANGED <<step, symbols, underWay, failed>>

\* It fails: its symbols may be asked for again, and the next one goes all the same.
LookupFails(c) ==
    /\ chunk[c] # {}
    /\ asked' = asked \ chunk[c]
    /\ failed' = failed \cup chunk[c]
    /\ lookupError' = TRUE
    /\ LookUp(c, rest[c])
    /\ UNCHANGED <<step, symbols, underWay, known, missing, answered>>

\* Nothing left to look up, and no lookup left to wait for.
Return(c) ==
    /\ step[c] = "resolving" /\ chunk[c] = {} /\ rest[c] = {}
    /\ \A l \in underWay[c] : chunk[l[1]] # l[2]
    /\ step' = [step EXCEPT ![c] = "returned"]
    /\ UNCHANGED <<symbols, rest, chunk, underWay, asked, known, missing, lookupError, answered, failed>>

\* What a search found.
Remember(found) ==
    /\ asked' = asked \cup found
    /\ known' = known \cup found
    /\ UNCHANGED <<calls, missing, lookupError, answered, failed>>

CatalogNext ==
    \/ \E c \in Calls :
          \/ \E wanted \in SUBSET Symbols : Resolve(c, wanted)
          \/ LookupAnswered(c) \/ LookupFails(c) \/ Return(c)
    \/ \E found \in SUBSET (Symbols \cap Listed) : Remember(found)

CatalogSpec == CatalogInit /\ [][CatalogNext]_catalogVars

-----------------------------------------------------------------------------
Outstanding(c) == chunk[c] \cup rest[c]

\* Two screens never look the same symbol up at once, and one that has been answered,
\* listed or not, is never looked up again, whatever failed and whatever a search found
\* meanwhile.
AskedOnce ==
    /\ \A c, d \in Calls : c # d => Outstanding(c) \cap Outstanding(d) = {}
    /\ \A c \in Calls : Outstanding(c) \cap answered = {}

\* The caller can read what it asked for when the call returns: each symbol is known, is
\* known to be missing, or a lookup of it failed.
ReadableOnReturn ==
    \A c \in Calls : step[c] = "returned" => symbols[c] \subseteq known \cup missing \cup failed
=============================================================================
