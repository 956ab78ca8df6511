----------------------------- MODULE MCDemuxCache -----------------------------
EXTENDS DemuxCache

(* A video and an audio stream of five frames each, one second apart; every  *)
(* second video frame is a keyframe, every audio frame is.                   *)
MCType == <<"video", "audio">>
Frame(i) == [s |-> IF i % 2 = 1 THEN 1 ELSE 2, kf |-> i % 4 # 3,
             dts |-> Second * ((i - 1) \div 2),
             pts |-> Second * ((i - 1) \div 2)]
MCFile == [i \in 1 .. 10 |-> Frame(i)]

To(pts, flags) == [pts |-> pts, flags |-> flags]
(* First away, then back: into what is cached there or to join it.           *)
MCSeeks == <<{To(10, {"hr"}), To(30, {"forward"})}, {To(0, {})}, {}>>
MCSwitches == {[s |-> 2, pts |-> 20]}
===============================================================================
