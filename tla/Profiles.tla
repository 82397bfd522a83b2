------------------------------- MODULE Profiles -------------------------------
(***************************************************************************)
(* The profiles of one user and their favorites in the profile service     *)
(* (src/apps/profile-service/src/profiles/profile.service.ts).  Kids       *)
(* profiles are told apart because the catalog refuses them the one movie  *)
(* of the model.                                                           *)
(***************************************************************************)
EXTENDS Naturals, FiniteSets

CONSTANTS
    Profiles,
    ActiveProfileLimit  \* ACTIVE_PROFILE_LIMIT: 5 in the code

ASSUME ProfilesAssumption == ActiveProfileLimit \in Nat

VARIABLES
    profile,    \* profiles
    counted,    \* transactions of create that have counted and not inserted
    adding,     \* requests of addFavorite that are past their checks
    favorite    \* profiles that have the movie in favorite_movies

profileVars == <<profile, counted, adding, favorite>>

Active == {"adult", "kids"}

ProfilesTypeOK ==
    /\ profile \in [Profiles -> {"absent", "deleted"} \union Active]
    /\ counted \in Nat
    /\ adding \subseteq Profiles
    /\ favorite \subseteq Profiles

ProfilesInit ==
    /\ profile = [p \in Profiles |-> "absent"]
    /\ counted = 0
    /\ adding = {}
    /\ favorite = {}

ActiveProfiles == {p \in Profiles : profile[p] \in Active}

\* Mutant of QuotaFree: create counts without the lock.
QuotaIgnored == TRUE

\* SELECT ... FROM profile_quotas FOR UPDATE, held until the transaction ends.
QuotaFree == counted = 0

CreateCount ==
    /\ QuotaFree
    /\ Cardinality(ActiveProfiles) < ActiveProfileLimit
    /\ counted' = counted + 1
    /\ UNCHANGED <<profile, adding, favorite>>

CreateInsert(p, kind) ==
    /\ counted > 0
    /\ profile[p] = "absent"
    /\ profile' = [profile EXCEPT ![p] = kind]
    /\ counted' = counted - 1
    /\ UNCHANGED <<adding, favorite>>

CreateAborts ==
    /\ counted > 0
    /\ counted' = counted - 1
    /\ UNCHANGED <<profile, adding, favorite>>

UpdateProfile(p, kind) ==
    /\ profile[p] \in Active \ {kind}
    /\ profile' = [profile EXCEPT ![p] = kind]
    /\ UNCHANGED <<counted, adding, favorite>>

DeleteProfile(p) ==
    /\ profile[p] \in Active
    /\ profile' = [profile EXCEPT ![p] = "deleted"]
    /\ UNCHANGED <<counted, adding, favorite>>

\* validate, then the catalog, which knows the movie for adults only.
AddFavoriteCheck(p) ==
    /\ profile[p] = "adult"
    /\ p \notin favorite
    /\ adding' = adding \union {p}
    /\ UNCHANGED <<profile, counted, favorite>>

\* The INSERT takes no lock: the profile may be deleted, or a kids profile, by now.
AddFavoriteInsert(p) ==
    /\ p \in adding
    /\ adding' = adding \ {p}
    /\ favorite' = favorite \union {p}
    /\ UNCHANGED <<profile, counted>>

RemoveFavorite(p) ==
    /\ profile[p] \in Active
    /\ p \in favorite
    /\ favorite' = favorite \ {p}
    /\ UNCHANGED <<profile, counted, adding>>

\* However many requests create profiles at once, the user has at most the limit.
ProfilesWithinLimit == Cardinality(ActiveProfiles) <= ActiveProfileLimit
=============================================================================
