----------------------------- MODULE BalloonRange -----------------------------
(***************************************************************************)
(* Calibrating the balloon's colour from the PC: the sliders of the        *)
(* calibration panel, the SET commands on their way, and the three copies  *)
(* of the range on the Pi.  Hue and saturation; value works as saturation. *)
(***************************************************************************)
EXTENDS Naturals, Sequences

CONSTANTS
    HueMax, SatMax,     \* 179 and 255 in the code
    ConfigHsv,          \* the range of the configuration file
    MaxSets             \* bound on SET commands on their way

VARIABLES
    m_hsvParams,        \* the sliders
    sets,               \* SET commands, first sent first
    pipeline_hsv,       \* config_.balloon of CombatPipeline
    manager_hsv,        \* the copy in ConfigManager
    segmentor_hsv       \* what the segmentor filters with

range_vars == <<m_hsvParams, sets, pipeline_hsv, manager_hsv, segmentor_hsv>>

Limit(key) == IF key \in {"H_MIN", "H_MAX"} THEN HueMax ELSE SatMax

\* Every slider starts at its end, whatever the Pi uses.
SlidersInit ==
    m_hsvParams = [H_MIN |-> 0, H_MAX |-> HueMax, S_MIN |-> 0, S_MAX |-> SatMax]

RangeInit ==
    /\ SlidersInit /\ sets = <<>>
    /\ pipeline_hsv = ConfigHsv /\ manager_hsv = ConfigHsv /\ segmentor_hsv = ConfigHsv

\* A slider moves anywhere; each change sends its new value at once.
renderCalibrationPanel ==
    /\ Len(sets) < MaxSets
    /\ \E key \in DOMAIN m_hsvParams : \E v \in 0..Limit(key) :
          /\ v # m_hsvParams[key]
          /\ m_hsvParams' = [m_hsvParams EXCEPT ![key] = v]
          /\ sets' = Append(sets, [key |-> key, value |-> v])
    /\ UNCHANGED <<pipeline_hsv, manager_hsv, segmentor_hsv>>

\* A slider past its partner changes places with it.
HueOrdered(hsv) ==
    IF hsv.H_MIN > hsv.H_MAX THEN [hsv EXCEPT !.H_MIN = hsv.H_MAX, !.H_MAX = hsv.H_MIN]
    ELSE hsv

Told(set) == [pipeline_hsv EXCEPT ![set.key] = IF set.value > Limit(set.key)
                                               THEN Limit(set.key) ELSE set.value]

\* What every copy is given: the range put in order.
Updated(set) == HueOrdered(Told(set))

SET ==
    /\ sets # <<>> /\ sets' = Tail(sets)
    /\ pipeline_hsv' = Updated(Head(sets)) /\ manager_hsv' = pipeline_hsv'
    /\ segmentor_hsv' = pipeline_hsv'
    /\ UNCHANGED m_hsvParams

RangeNext == renderCalibrationPanel \/ SET

RangeSpec == RangeInit /\ [][RangeNext]_range_vars

-----------------------------------------------------------------------------
(***************************************************************************)
(* "PC UI'daki H/S/V slider'larını balon HSV aralığına mapliyoruz"         *)
(* (combat_pipeline.cpp:931): once both hue sliders have been moved and    *)
(* every SET has arrived, the hues are those the operator sees.  Pulling   *)
(* the lower slider past the old upper bound swaps the two, and the next   *)
(* SET overwrites the bound the first one gave.                            *)
(***************************************************************************)
SlidersAreObeyed ==
    LET bothMoved == m_hsvParams.H_MIN # 0 /\ m_hsvParams.H_MAX # HueMax
    IN  sets = <<>> /\ bothMoved /\ m_hsvParams.H_MIN <= m_hsvParams.H_MAX
          => /\ segmentor_hsv.H_MIN = m_hsvParams.H_MIN
             /\ segmentor_hsv.H_MAX = m_hsvParams.H_MAX
=============================================================================
