---------------------------- MODULE ZoneService ----------------------------
(***************************************************************************)
(* Zones of the auth service: rows behind a Redis cache of single zones    *)
(* and of the list of an organisation, and the templates that fill a new   *)
(* zone.  A cached value is dropped after the table has changed, and a     *)
(* reader that missed the cache fills it with what it read before.         *)
(* A zone is named by the call that creates it.                            *)
(***************************************************************************)
EXTENDS Handlers

CONSTANTS
    FirstZones,     \* the zones of the start, all of organisation "o"
    Orgs            \* organisations

(* A row of the table; a zone is for tests or live. *)
ZoneRows == [org : Orgs, mode : {"test", "live"}, meta : SUBSET STRING]

(* A new zone gets an id of its own, and a key of Redis is that of a zone  *)
(* or that of a list.                                                      *)
ASSUME ZoneAssumption ==
    /\ Calls \cap FirstZones = {} /\ Orgs \cap (Calls \cup FirstZones) = {}
    /\ "o" \in Orgs /\ None \notin ZoneRows

VARIABLES
    zones,      \* the zones table
    zoneCache,  \* Redis, zone:id:<zone>
    orgCache,   \* Redis, zone:org:<org>: the zones of an organisation
    made,       \* what templates have made for each zone
    late        \* history: the cached keys left behind by a late fill, by a failed
                \* Del, or by a write that was made and not answered

zoneVars == <<zones, zoneCache, orgCache, made, late>>

ZoneIds == Calls \cup FirstZones

ZoneRow(org, mode) == [org |-> org, mode |-> mode, meta |-> {}]

(* What a handler keeps: the work left, the zone or the list it has read. *)
Keeping(todo, zone, list) == [todo |-> todo, zone |-> zone, list |-> list]

-----------------------------------------------------------------------------
(* SQLRepository *)

InsertZone(z, row) == zones' = [zones EXCEPT ![z] = row]

SelectZone(z) == zones[z]

SelectZonesOf(o) ==
    {[id |-> z, row |-> zones[z]] : z \in {y \in ZoneIds : zones[y] # None /\ zones[y].org = o}}

(* metadata || $2: a missing zone is no error. *)
MergeMetadata(z, meta) ==
    zones' = IF zones[z] = None THEN zones
             ELSE [zones EXCEPT ![z].meta = @ \cup meta]

-----------------------------------------------------------------------------
(* Templates *)

(* What Apply of a template makes, in order.  The errors of the            *)
(* marketplace template are ignored, the default one stops at the first.   *)
TemplateSteps(t) ==
    CASE t = "default" -> <<"Revenue", "Platform", "Welcome Flow">>
      [] t = "marketplace" -> <<"Escrow", "Fees">>
      [] OTHER -> <<>>

(* The templates of TemplateService: flows, webhooks and policies of each. *)
TemplateRegistry ==
    [t \in {"e-commerce", "saas-billing", "marketplace", "fintech-basic", "automation-hub"} |->
        CASE t = "e-commerce" -> <<3, 2, 0>>
          [] t = "saas-billing" -> <<2, 1, 0>>
          [] t = "marketplace" -> <<4, 3, 0>>
          [] t = "fintech-basic" -> <<2, 2, 0>>
          [] t = "automation-hub" -> <<1, 1, 0>>]

-----------------------------------------------------------------------------
ZoneInit ==
    /\ zones = [z \in ZoneIds |-> IF z \in FirstZones THEN ZoneRow("o", "test") ELSE None]
    /\ zoneCache = [z \in ZoneIds |-> None]
    /\ orgCache = [o \in Orgs |-> None]
    /\ made = [z \in ZoneIds |-> {}]
    /\ late = {}

(* DEL of the key of a zone, of the list of an organisation. *)
ForgetZone(z) ==
    \/ zoneCache' = [zoneCache EXCEPT ![z] = None] /\ late' = late \ {z}
    \/ MayFail /\ late' = late \cup {z} /\ UNCHANGED zoneCache

ForgetList(o) ==
    \/ orgCache' = [orgCache EXCEPT ![o] = None] /\ late' = late \ {o}
    \/ MayFail /\ late' = late \cup {o} /\ UNCHANGED orgCache

(* The zone a handler is about to work on. *)
Subject(c) == Head(held[c].todo)

(* POST /zones: the row, the list of its organisation, the template. *)
CreateZone(c) ==
    \/ /\ Begins(c, "createzone")
       /\ \/ /\ InsertZone(c, ZoneRow(ask[c].org, ask[c].mode))
             /\ Goto(c, "forget") /\ UNCHANGED late
          \/ /\ Unanswered(/\ InsertZone(c, ZoneRow(ask[c].org, ask[c].mode))
                           /\ late' = late \cup {ask[c].org}, <<zones, late>>)
             /\ Answer(c, "refused")
       /\ Hold(c, Keeping(TemplateSteps(ask[c].template), None, None))
       /\ UNCHANGED <<zoneCache, orgCache, made>>
    \/ /\ Serving(c, "createzone", "forget")
       /\ ForgetList(ask[c].org)
       /\ Goto(c, "template")
       /\ UNCHANGED <<held, zones, zoneCache, made>>
    \/ /\ Serving(c, "createzone", "template")
       /\ \/ held[c].todo = <<>> /\ Ok(c) /\ UNCHANGED made
          \/ /\ held[c].todo # <<>>
             /\ made' = [made EXCEPT ![c] = @ \cup {Head(held[c].todo)}]
             /\ Hold(c, [held[c] EXCEPT !.todo = Tail(@)])
             /\ Goto(c, "template")
          \/ /\ MayFail /\ held[c].todo # <<>> /\ ask[c].template = "default"
             /\ Ok(c) /\ UNCHANGED made
          \/ /\ MayFail /\ held[c].todo # <<>> /\ ask[c].template # "default"
             /\ Hold(c, [held[c] EXCEPT !.todo = Tail(@)])
             /\ Goto(c, "template") /\ UNCHANGED made
       /\ UNCHANGED <<zones, zoneCache, orgCache, late>>

(* GET /zones/get: cache, table, fill. *)
GetZone(c) ==
    \/ /\ Begins(c, "getzone")
       /\ \/ zoneCache[ask[c].zone] # None /\ Ok(c)
          \/ (MayFail \/ zoneCache[ask[c].zone] = None) /\ Goto(c, "table") /\ UNCHANGED held
       /\ UNCHANGED zoneVars
    \/ /\ Serving(c, "getzone", "table")
       /\ \/ /\ SelectZone(ask[c].zone) # None
             /\ Hold(c, Keeping(<<>>, SelectZone(ask[c].zone), None)) /\ Goto(c, "fill")
          \/ (MayFail \/ SelectZone(ask[c].zone) = None) /\ Refuse(c)
       /\ UNCHANGED zoneVars
    \/ /\ Serving(c, "getzone", "fill")
       /\ LET z == ask[c].zone IN
          \/ /\ zoneCache' = [zoneCache EXCEPT ![z] = held[c].zone]
             /\ late' = IF held[c].zone = zones[z] THEN late \ {z} ELSE late \cup {z}
          \/ MayFail /\ UNCHANGED <<zoneCache, late>>
       /\ Ok(c) /\ UNCHANGED <<zones, orgCache, made>>

(* GET /zones: the same for the list; an empty one is not stored. *)
ListZones(c) ==
    \/ /\ Begins(c, "listzones")
       /\ \/ orgCache[ask[c].org] # None /\ Ok(c)
          \/ (MayFail \/ orgCache[ask[c].org] = None) /\ Goto(c, "table") /\ UNCHANGED held
       /\ UNCHANGED zoneVars
    \/ /\ Serving(c, "listzones", "table")
       /\ \/ /\ Hold(c, Keeping(<<>>, None, SelectZonesOf(ask[c].org)))
             /\ IF SelectZonesOf(ask[c].org) = {} THEN Answer(c, "ok") ELSE Goto(c, "fill")
          \/ MayFail /\ Refuse(c)
       /\ UNCHANGED zoneVars
    \/ /\ Serving(c, "listzones", "fill")
       /\ LET o == ask[c].org IN
          \/ /\ orgCache' = [orgCache EXCEPT ![o] = held[c].list]
             /\ late' = IF held[c].list = SelectZonesOf(o) THEN late \ {o} ELSE late \cup {o}
          \/ MayFail /\ UNCHANGED <<orgCache, late>>
       /\ Ok(c) /\ UNCHANGED <<zones, zoneCache, made>>

(* Slip: the list of the organisation is not dropped. *)
UpdateMetadataOfZoneOnly(c) ==
    \/ /\ at[c] = "update"
       /\ MergeMetadata(Subject(c), ask[c].meta) /\ Goto(c, "forget")
       /\ UNCHANGED <<held, zoneCache, orgCache, late>>
    \/ /\ at[c] = "forget"
       /\ ForgetZone(Subject(c))
       /\ Hold(c, [held[c] EXCEPT !.todo = Tail(@)]) /\ Goto(c, "each")
       /\ UNCHANGED <<zones, orgCache>>

(* The keys of Redis that a row is part of. *)
KeysOf(z) == {z} \cup {o \in Orgs : zones[z] # None /\ zones[z].org = o}

(* CachedRepository.UpdateMetadata: the table, the key of the zone, then   *)
(* the list of its organisation, which the row is read again for.  An      *)
(* error of the first returns before both Dels, whatever the table did.    *)
UpdateMetadata(c) ==
    \/ /\ at[c] = "update"
       /\ \/ /\ MergeMetadata(Subject(c), ask[c].meta)
             /\ Goto(c, "forget") /\ UNCHANGED <<held, late>>
          \/ /\ Unanswered(/\ MergeMetadata(Subject(c), ask[c].meta)
                           /\ late' = late \cup KeysOf(Subject(c)), <<zones, late>>)
             /\ Hold(c, [held[c] EXCEPT !.todo = Tail(@)]) /\ Goto(c, "each")
       /\ UNCHANGED <<zoneCache, orgCache>>
    \/ /\ at[c] = "forget"
       /\ ForgetZone(Subject(c))
       /\ Goto(c, "forgetlist")
       /\ UNCHANGED <<held, zones, orgCache>>
    \/ /\ at[c] = "forgetlist"
       /\ LET row == SelectZone(Subject(c)) IN
          IF row = None THEN UNCHANGED <<orgCache, late>> ELSE ForgetList(row.org)
       /\ Hold(c, [held[c] EXCEPT !.todo = Tail(@)])
       /\ Goto(c, "each")
       /\ UNCHANGED <<zones, zoneCache>>

(* PATCH /zones/metadata: each zone in turn, errors skipped. *)
BulkUpdateMetadata(c) ==
    \/ /\ Begins(c, "bulkmeta")
       /\ Hold(c, Keeping(ask[c].ids, None, None)) /\ Goto(c, "each")
       /\ UNCHANGED zoneVars
    \/ /\ Serving(c, "bulkmeta", "each")
       /\ IF held[c].todo = <<>> THEN Ok(c) ELSE Goto(c, "update") /\ UNCHANGED held
       /\ UNCHANGED zoneVars
    \/ ask[c].op = "bulkmeta" /\ UpdateMetadata(c) /\ UNCHANGED made

(* The template routes only read the registry; Apply counts what a         *)
(* template has and makes nothing.                                         *)
UseTemplate(c) ==
    /\ Begins(c, "template")
    /\ IF ask[c].type \in DOMAIN TemplateRegistry
       THEN Answer(c, "ok") /\ Hold(c, Keeping(TemplateRegistry[ask[c].type], None, None))
       ELSE Refuse(c)
    /\ UNCHANGED zoneVars

(* Entries expire after half an hour. *)
ExpireZone(z) ==
    /\ zoneCache[z] # None
    /\ zoneCache' = [zoneCache EXCEPT ![z] = None]
    /\ late' = late \ {z}
    /\ UNCHANGED <<zones, orgCache, made, callVars>>

ExpireList(o) ==
    /\ orgCache[o] # None
    /\ orgCache' = [orgCache EXCEPT ![o] = None]
    /\ late' = late \ {o}
    /\ UNCHANGED <<zones, zoneCache, made, callVars>>

ZoneOps == {"createzone", "getzone", "listzones", "bulkmeta", "template"}

ZoneNext ==
    \/ \E c \in Calls :
         \/ ask[c].op \in ZoneOps /\ Malformed(c) /\ UNCHANGED zoneVars
         \/ CreateZone(c) \/ GetZone(c) \/ ListZones(c)
         \/ BulkUpdateMetadata(c) \/ UseTemplate(c)
    \/ \E z \in ZoneIds : ExpireZone(z)
    \/ \E o \in Orgs : ExpireList(o)

-----------------------------------------------------------------------------
(* Call c has changed zone z and has not yet dropped what Redis keeps. *)
Dropping(c, z) ==
    \/ Serving(c, "createzone", "forget") /\ z = c
    \/ /\ ask[c].op = "bulkmeta" /\ at[c] \in {"forget", "forgetlist"}
       /\ Subject(c) = z

(* What Redis holds of a zone or of an organisation's zones is what the    *)
(* table holds, unless the change is still being made known or, since the  *)
(* key was last dropped or filled from the current row, a Del failed, a    *)
(* write was made whose answer was lost, or a reader filled the cache with *)
(* what it had read before the change: no write that is answered forgets a *)
(* key, and one Del that succeeds makes good all that went before          *)
(* (CachedRepository).                                                     *)
StaleZonesAreExplained ==
    /\ \A z \in ZoneIds : zoneCache[z] \notin {None, zones[z]} =>
         z \in late \/ \E c \in Calls : Dropping(c, z)
    /\ \A o \in Orgs : orgCache[o] \notin {None, SelectZonesOf(o)} =>
         \/ o \in late
         \/ \E c \in Calls, z \in ZoneIds :
               zones[z] # None /\ zones[z].org = o /\ Dropping(c, z)
=============================================================================
