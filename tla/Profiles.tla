------------------------------ MODULE Profiles ------------------------------
(***************************************************************************)
(* The IAM service's profiles and vehicles.  The primary vehicle is part   *)
(* of the row of the account and is written by two operations, the others  *)
(* have rows of their own.  A field that a request leaves out is Absent;   *)
(* a request that is refused has no step.                                  *)
(***************************************************************************)
EXTENDS FiniteSets

CONSTANTS
  Driver,       \* accounts
  Vehicle,      \* ids of secondary vehicles
  VehicleType,  \* the types the service knows
  License       \* well formed licence numbers

ASSUME ProfilesAssumption == "blank" \notin License /\ "unknown" \notin VehicleType

VARIABLES
  profiles,   \* the profile and vehicle columns of auth.users
  secondary,  \* auth.user_secondary_vehicles: each vehicle, or NoVehicle
  listing     \* the answer each driver was last given, or is being given

profileVars == <<profiles, secondary, listing>>

Absent == "absent"
NoVehicle == [owner |-> "nobody"]
NoList == [stage |-> "none"]
Flag == {"yes", "no"}
VehicleRow == [type : VehicleType, license : License, emergency : Flag]

\* What requests carry.
RawType == VehicleType \cup {"unknown"}
RawLicense == License \cup {"blank"}
Optional(S) == S \cup {Absent}

\* A partial update: SET only the columns that are present.
Patch(row, f) == [k \in DOMAIN row |-> IF k \in DOMAIN f /\ f[k] # Absent THEN f[k] ELSE row[k]]

-----------------------------------------------------------------------------
(* The checks of the handlers; the service repeats the one of the type *)

ValidVehicleType(x) == x \in VehicleType

\* Mutant: any licence is accepted.
AnyLicense(x) == TRUE

ValidLicense(x) == x \in License

ValidFields(f) ==
  /\ f.type # Absent => ValidVehicleType(f.type)
  /\ f.license # Absent => ValidLicense(f.license)

SomeField(f) == \E k \in DOMAIN f : f[k] # Absent

VehicleFields ==
  [type : Optional(RawType), license : Optional(RawLicense), emergency : Optional(Flag)]

-----------------------------------------------------------------------------
(* The statements of the repositories *)

OwnedBy(u, v) == secondary[v] # NoVehicle /\ secondary[v].owner = u

SetColumns(u, f) == profiles' = [profiles EXCEPT ![u] = Patch(@, f)] /\ UNCHANGED secondary

\* The primary vehicle is part of the row of the account.
SetPrimary(u, f) == SetColumns(u, f)

InsertSecondary(u, v, f) ==
  /\ secondary[v] = NoVehicle
  /\ secondary' = [secondary EXCEPT ![v] = [owner |-> u, row |-> f]]
  /\ UNCHANGED profiles

SetSecondary(u, v, f) ==
  /\ OwnedBy(u, v) /\ secondary' = [secondary EXCEPT ![v].row = Patch(@, f)]
  /\ UNCHANGED profiles

RemoveSecondary(u, v) ==
  /\ OwnedBy(u, v) /\ secondary' = [secondary EXCEPT ![v] = NoVehicle]
  /\ UNCHANGED profiles

GetPrimary(u) == [type |-> profiles[u].type, license |-> profiles[u].license,
                  emergency |-> profiles[u].emergency]

ListSecondary(u) == {v \in Vehicle : OwnedBy(u, v)}

-----------------------------------------------------------------------------
(* VehicleService *)

UpdatePrimaryVehicle(u, f) == (f.type # Absent => ValidVehicleType(f.type)) /\ SetPrimary(u, f)

AddSecondaryVehicle(u, f) == ValidVehicleType(f.type) /\ \E v \in Vehicle : InsertSecondary(u, v, f)

UpdateSecondaryVehicle(u, v, f) ==
  (f.type # Absent => ValidVehicleType(f.type)) /\ SetSecondary(u, v, f)

-----------------------------------------------------------------------------
(* The endpoints; each writes with a single statement *)

\* The licence of a profile is not checked.
UpdateProfile(u) ==
  /\ \E f \in [phone : Optional({"", "number"}), type : Optional(RawType), license : Optional(RawLicense)] :
       (f.type # Absent => ValidVehicleType(f.type)) /\ SetColumns(u, f)
  /\ UNCHANGED listing

UpdatePrimary(u) ==
  /\ \E f \in VehicleFields : SomeField(f) /\ ValidFields(f) /\ UpdatePrimaryVehicle(u, f)
  /\ UNCHANGED listing

AddSecondary(u) ==
  /\ \E f \in [type : RawType, license : RawLicense, emergency : Flag] :
       ValidFields(f) /\ AddSecondaryVehicle(u, f)
  /\ UNCHANGED listing

UpdateSecondary(u) ==
  /\ \E v \in Vehicle, f \in VehicleFields :
       SomeField(f) /\ ValidFields(f) /\ UpdateSecondaryVehicle(u, v, f)
  /\ UNCHANGED listing

DeleteSecondary(u) ==
  /\ \E v \in Vehicle : RemoveSecondary(u, v)
  /\ UNCHANGED listing

\* ListByUserID: the primary vehicle, then the others, in two reads.
ListVehicles(u) ==
  /\ \/ listing' = [listing EXCEPT ![u] = [primary |-> GetPrimary(u), others |-> {}, stage |-> "half"]]
     \/ /\ listing[u].stage = "half"
        /\ listing' = [listing EXCEPT ![u].others = ListSecondary(u), ![u].stage = "whole"]
  /\ UNCHANGED <<profiles, secondary>>

-----------------------------------------------------------------------------
\* Registration checks type and licence.
ProfilesInit ==
  /\ \E t \in VehicleType, l \in License :
       profiles = [u \in Driver |-> [phone |-> "", type |-> t, license |-> l, emergency |-> "no"]]
  /\ secondary = [v \in Vehicle |-> NoVehicle]
  /\ listing = [u \in Driver |-> NoList]

ProfilesNext ==
  \E u \in Driver :
    \/ UpdateProfile(u) \/ UpdatePrimary(u)
    \/ AddSecondary(u) \/ UpdateSecondary(u) \/ DeleteSecondary(u)
    \/ ListVehicles(u)

ProfilesSpec == ProfilesInit /\ [][ProfilesNext]_profileVars

-----------------------------------------------------------------------------
(* Whatever is requested, secondary vehicles keep a known type and a well  *)
(* formed licence; the primary one keeps its type, but UpdateProfile may   *)
(* blank its licence.                                                      *)
ProfilesTypeOK ==
  /\ profiles \in [Driver -> [phone : {"", "number"}, type : VehicleType,
                              license : RawLicense, emergency : Flag]]
  /\ secondary \in [Vehicle -> [owner : Driver, row : VehicleRow] \cup {NoVehicle}]
  /\ listing \in [Driver -> [primary : [type : VehicleType, license : RawLicense, emergency : Flag],
                             others : SUBSET Vehicle, stage : {"half", "whole"}] \cup {NoList}]

=============================================================================
