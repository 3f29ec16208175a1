-------------------------------- MODULE Town --------------------------------
(***************************************************************************)
(* What a player's lines do besides mail and work: parcels with their      *)
(* boards and the caches that show them (RoomCache), accounts              *)
(* (Identities), hunger (Hunger), the self model of a resident             *)
(* (Residents), the pool of workers (WorkerPool), the ways of the town     *)
(* (GridMap) and the rooms on its streets (RoomDirectory).  As in          *)
(* MailSystem, every behaviour has a cast of its own: the actors that take *)
(* part.                                                                   *)
(***************************************************************************)
EXTENDS RoomCache, Identities, Hunger, Residents, WorkerPool,
        GridMap, RoomDirectory

CONSTANT Casts      \* who takes part in a behaviour

Cast == [shells : SUBSET Shells, lines : SUBSET Line, grounds : SUBSET Parcels,
         estate : SUBSET Names,
         looked : SUBSET Views,
         visitors : SUBSET Visitors, calls : SUBSET IdentityCall,
         mouths : SUBSET Mouths,
         watchers : SUBSET Terminals, actors : SUBSET Terminals, sights : SUBSET Observation,
         steps : SUBSET TaskCommands, days : 1..MaxDay, upgrades : BOOLEAN,
         sessions : SUBSET SshSessions, clients : SUBSET MailClients,
         until : 0..MaxClock, orders : SUBSET Under("parcel", ParcelAction),
         walkers : SUBSET Walkers, plates : SUBSET Plates, loaders : SUBSET Loaders]

ASSUME CastsAssumption == Casts \subseteq Cast

VARIABLE cast       \* the cast of this behaviour, which never changes

townVars == <<landVars, cacheVars>>
vars     == <<townVars, idVars, hungerVars, residentVars, poolVars,
              gridVars, roomVars, cast>>

(* A cast has its grounds.  With an estate they begin as built and titled  *)
(* parcels with all players in them; the others begin with newcomers on a  *)
(* street of free parcels.                                                 *)
InTheEstate == /\ \A l \in Landlords : place[l] \in cast.grounds
               /\ \A p \in cast.grounds : land[p].title \in cast.estate
               /\ \A p \in Parcels \ cast.grounds : land[p] = Vacant
               /\ agreed = Landlords
NewInTown   == /\ \A p \in Parcels : land[p] = Vacant
               /\ agreed = {}

Init == /\ cast \in Casts
        /\ LandInit
        /\ IF cast.estate # {} THEN InTheEstate ELSE NewInTown
        /\ RoomCacheInit /\ IdentitiesInit /\ HungerInit
        /\ ResidentsInit /\ PoolInit /\ GridInit /\ RoomsInit
        /\ cast.mouths = {} => \A d \in Diners : ~rich[d]
        /\ cast.clients = {} => ~joined
        /\ cast.walkers = {} => \A w \in Walkers : stands[w] = Origin

Walks(l) == /\ cast.estate = {} /\ \E said \in cast.lines : said.by = l
            /\ Agree(l) \/ \E v \in cast.grounds \cup {Street} : l \in agreed /\ Walk(l, v)

Lines == \/ \E s \in cast.shells :
                \/ \E l \in cast.lines : Type(s, l) /\ UNCHANGED cacheVars
                \/ LineStep(s)
                \/ InvalidateForParcel(s)
         \/ \E l \in Landlords : Walks(l) /\ UNCHANGED cacheVars

Parcelled == /\ cast.shells # {} /\ Lines
             /\ UNCHANGED <<idVars, hungerVars, residentVars, poolVars, gridVars, roomVars>>

Caches == /\ cast.looked # {} /\ CacheStep(cast.looked)
          /\ UNCHANGED <<idVars, hungerVars, residentVars, poolVars, gridVars, roomVars>>

Accounts == /\ \E c \in cast.visitors : IdentityStep(c, cast.calls)
            /\ UNCHANGED <<townVars, hungerVars, residentVars, poolVars, gridVars, roomVars>>

HungerGate == /\ \/ \E m \in cast.mouths : MouthStep(m)
                 \/ cast.mouths # {} /\ \E d \in Diners : DinerStep(d)
              /\ UNCHANGED <<townVars, idVars, residentVars, poolVars, gridVars, roomVars>>

Loops == /\ \/ \E obs \in cast.sights :
                  \/ \E t \in cast.watchers : BeginContext(t, obs)
                  \/ \E t \in cast.actors, c \in cast.steps : BeginStep(t, obs, c)
            \/ \E t \in cast.watchers \cup cast.actors : TurnStep(t)
            \/ day < cast.days /\ DayPasses
            \/ cast.upgrades /\ Upgrade
         /\ UNCHANGED <<townVars, idVars, hungerVars, poolVars, gridVars, roomVars>>

Working == /\ \/ \E m \in cast.clients : MailStep(m)
              \/ now < cast.until /\ (Tick \/ SetToken)
              \/ cast.clients # {} /\ Join
              \/ \E c \in cast.sessions : WorkerStep(c, cast.orders)
           /\ UNCHANGED <<townVars, idVars, hungerVars, residentVars, gridVars, roomVars>>

Walking == /\ \E w \in cast.walkers : GridStep(w, cast.plates)
           /\ UNCHANGED <<townVars, idVars, hungerVars, residentVars, poolVars, roomVars>>

Registering == /\ cast.loaders # {}
               /\ \/ \E a \in cast.loaders : LoadStep(a)
                  \/ \E p \in Lots, n \in EnterNames : UpdateTitle(p, n)
               /\ UNCHANGED <<townVars, idVars, hungerVars, residentVars, poolVars, gridVars>>

Next == /\ \/ Parcelled \/ Caches \/ Accounts \/ HungerGate \/ Loops \/ Working \/ Walking
           \/ Registering
        /\ UNCHANGED cast

Spec == Init /\ [][Next]_vars

-----------------------------------------------------------------------------
(* Every variable has its type, in all parts. *)
TypeOK == /\ LandTypeOK /\ RoomCacheTypeOK /\ IdentitiesTypeOK /\ HungerTypeOK
          /\ ResidentsTypeOK /\ PoolTypeOK /\ GridTypeOK /\ RoomsTypeOK
=============================================================================
