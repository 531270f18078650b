------------------------ MODULE MCComponents_proofs ------------------------
(***************************************************************************)
(* The types of the eleven components of the suite: the one that runs      *)
(* keeps its own invariant and bounds, and the others do not move.         *)
(***************************************************************************)
EXTENDS MCComponents, Evidence_proofs, Delivery_proofs, Components_proofs

(* What each component keeps.                                              *)
PolicyKept == WakeInv /\ WakeTypeOK
SensorsKept == SlFabricInv /\ SlIngressInv /\ SlBounds
RpcKept == RcInv /\ RcBounds
BodyKept == BsInv /\ BsBounds
FrameKept == CfInv /\ CfTypeOK
SeatKept == SnInv /\ snEvents \in 0 .. SnEvents
BootKept == RbInv /\ RbBounds

(* The component that runs keeps it.                                       *)
Kept ==
    /\ part \in Parts
    /\ part = "wake" => PolicyKept
    /\ part = "sensors" => SensorsKept
    /\ part = "rpc" => RpcKept
    /\ part = "packages" => MpInv
    /\ part = "body" => BodyKept
    /\ part = "frame" => FrameKept
    /\ part = "seat" => SeatKept
    /\ part = "audio" => AuInv
    /\ part = "court" => IcTypeOK
    /\ part = "boot" => BootKept

(* Every component begins in what it keeps.                                *)
LEMMA KeptInit == Init => Kept
<1> SUFFICES ASSUME Init PROVE Kept
  OBVIOUS
<1>1. part \in Parts
  BY DEF Init
<1>2. PolicyKept
  BY WakeInitInv, WakeTypesInit DEF Init, PolicyKept
<1>3. SensorsKept
  BY SlInitInv, SlBoundsInit DEF Init, SensorsKept
<1>4. MpInv /\ AuInv /\ IcTypeOK
  BY MpInitInv, AuInitInv, IcTypesInit DEF Init
<1>5. RpcKept
  BY RcInitInv, RcBoundsInit DEF Init, RpcKept
<1>6. BodyKept
  BY BsInitInv, BsBoundsInit DEF Init, BodyKept
<1>7. FrameKept
  BY CfInitInv, CfTypesInit DEF Init, FrameKept
<1>8. SeatKept
  BY SnInitInv, SnAssumption DEF Init, SnInit, SeatKept
<1>9. BootKept
  BY RbInitInv, RbBoundsInit DEF Init, BootKept
<1>10. QED
  BY <1>1, <1>2, <1>3, <1>4, <1>5, <1>6, <1>7, <1>8, <1>9 DEF Kept

(* The steps of each keep it.                                              *)
LEMMA KeptSteps ==
    /\ PolicyKept /\ [WakeNext]_wkVars => PolicyKept'
    /\ SensorsKept /\ [SlNext]_slVars => SensorsKept'
    /\ RpcKept /\ [RcNext]_rcVars => RpcKept'
    /\ BodyKept /\ [BsNext]_bsVars => BodyKept'
    /\ FrameKept /\ [CfNext]_cfVars => FrameKept'
    /\ SeatKept /\ [SnNext]_snVars => SeatKept'
    /\ BootKept /\ [RbNext]_rbVars => BootKept'
<1>1. PolicyKept /\ [WakeNext]_wkVars => PolicyKept'
  BY WakeStep, WakeTypesStep DEF PolicyKept
<1>2. SensorsKept /\ [SlNext]_slVars => SensorsKept'
  BY SlStepInv, SlBoundsStep DEF SensorsKept
<1>3. RpcKept /\ [RcNext]_rcVars => RpcKept'
  BY RcStepInv, RcBoundsStep DEF RpcKept
<1>4. BodyKept /\ [BsNext]_bsVars => BodyKept'
  BY BsStepInv, BsBoundsStep DEF BodyKept
<1>5. FrameKept /\ [CfNext]_cfVars => FrameKept'
  BY CfStepInv, CfTypesStep DEF FrameKept
<1>6. SeatKept /\ [SnNext]_snVars => SeatKept'
  BY SnStep, SnSpent DEF SeatKept
<1>7. BootKept /\ [RbNext]_rbVars => BootKept'
  BY RbNextInv, RbBoundsStep DEF BootKept
<1>8. QED
  BY <1>1, <1>2, <1>3, <1>4, <1>5, <1>6, <1>7

(* A step of the suite is a step of the component that runs, or of none.   *)
LEMMA KeptStep == Kept /\ [Next]_vars => Kept'
<1> SUFFICES ASSUME Kept, [Next]_vars PROVE Kept'
  OBVIOUS
<1>1. part' = part
  BY DEF Next, Rest, vars
<1>2. part = "wake" => [WakeNext]_wkVars
  BY DEF Next, vars
<1>3. part = "sensors" => [SlNext]_slVars
  BY DEF Next, vars
<1>5. part = "rpc" => [RcNext]_rcVars
  BY DEF Next, vars
<1>6. part = "packages" => [MpNext]_mpVars
  BY DEF Next, vars
<1>7. part = "body" => [BsNext]_bsVars
  BY DEF Next, vars
<1>8. part = "frame" => [CfNext]_cfVars
  BY DEF Next, vars
<1>9. part = "seat" => [SnNext]_snVars
  BY DEF Next, vars
<1>10. part = "audio" => [AuNext]_auVars
  BY DEF Next, vars
<1>11. part = "court" => [IcNext]_icVars
  BY DEF Next, vars
<1>12. part = "boot" => [RbNext]_rbVars
  BY DEF Next, vars
<1>13. /\ part = "wake" => PolicyKept'
       /\ part = "sensors" => SensorsKept'
       /\ part = "rpc" => RpcKept'
       /\ part = "body" => BodyKept'
       /\ part = "frame" => FrameKept'
       /\ part = "seat" => SeatKept'
       /\ part = "boot" => BootKept'
  BY <1>2, <1>3, <1>5, <1>7, <1>8, <1>9, <1>12, KeptSteps DEF Kept
<1>14. /\ part = "packages" => MpInv'
       /\ part = "audio" => AuInv'
       /\ part = "court" => IcTypeOK'
  BY <1>6, <1>10, <1>11, MpNextInv, AuStepInv, IcTypesStep DEF Kept
<1>15. QED
  BY <1>1, <1>13, <1>14 DEF Kept

(* The component that runs keeps its types and bounds whatever the others  *)
(* begin with.  The suite fixes where an idle component stands; what is    *)
(* said of one alone, from any of its initial states, is in WakeTypes,     *)
(* SensorTypes, RpcTypes, BodyTypes, FrameTypes, SeatTypes, AudioTypes,    *)
(* CourtTypes, BootTypes, PlacementReserved and PackagesTrusted.           *)
THEOREM ComponentTypes == Spec => []ComponentsTypeOK
<1>1. Kept => ComponentsTypeOK
  <2>1. PolicyKept => WakeTypeOK
    BY DEF PolicyKept
  <2>2. SensorsKept => SlTypeOK
    BY SlBoundsTypes DEF SensorsKept
  <2>3. RpcKept => RcTypeOK
    BY DEF RpcKept, RcBounds
  <2>4. BodyKept => BsTypeOK
    BY DEF BodyKept, BsBounds
  <2>5. FrameKept => CfTypeOK
    BY DEF FrameKept
  <2>6. SeatKept => SnTypeOK
    BY SnTypes DEF SeatKept
  <2>7. BootKept => RbTypeOK
    BY RbTypes DEF BootKept
  <2>8. MpInv => MpTypeOK
    BY MpInvSound
  <2>9. AuInv => AuTypeOK
    BY DEF AuInv
  <2>10. QED
    BY <2>1, <2>2, <2>3, <2>4, <2>5, <2>6, <2>7, <2>8, <2>9 DEF Kept, ComponentsTypeOK
<1>2. QED
  BY <1>1, KeptInit, KeptStep, PTL DEF Spec
=============================================================================
