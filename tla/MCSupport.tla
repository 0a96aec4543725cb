-------------------------------- MODULE MCSupport --------------------------------
(***************************************************************************)
(* The components that share nothing, checked in one run: a behavior is a behavior    *)
(* of one of them, chosen for ever, while the others stay as they are.  Of the         *)
(* parameters of those that do not run one value is taken.                          *)
(***************************************************************************)
EXTENDS SharedDetection, Gimbal, Framing, StreamTrackers, FullStatus, Logger,
        Coverage

VARIABLE component

Components == {"detection", "gimbal", "framing", "trackers", "full_status", "logger",
               "coverage"}

SupportInit ==
    /\ component \in Components
    /\ DetectionInit /\ (component # "detection" => web = {})
    /\ GimbalInit /\ (component # "gimbal" => timeout = [a \in Axes |-> Min(Timeouts)])
    /\ FramingInit /\ (component # "framing" => p900)
    /\ TrackersInit /\ LoggerInit /\ CoverageInit
    /\ StatusInit /\ (component # "full_status" => leads[CHOOSE m \in Members : TRUE])

DetectionStep ==
    /\ component = "detection" /\ DetectionNext
    /\ UNCHANGED <<component, gimbalVars, framingVars, trackersVars, statusVars, loggerVars,
                   coverageVars>>

GimbalStep ==
    /\ component = "gimbal" /\ GimbalNext
    /\ UNCHANGED <<component, detectionVars, framingVars, trackersVars, statusVars, loggerVars,
                   coverageVars>>

FramingStep ==
    /\ component = "framing" /\ FramingNext
    /\ UNCHANGED <<component, detectionVars, gimbalVars, trackersVars, statusVars, loggerVars,
                   coverageVars>>

TrackersStep ==
    /\ component = "trackers" /\ TrackersNext
    /\ UNCHANGED <<component, detectionVars, gimbalVars, framingVars, statusVars, loggerVars,
                   coverageVars>>

StatusStep ==
    /\ component = "full_status" /\ StatusNext
    /\ UNCHANGED <<component, detectionVars, gimbalVars, framingVars, trackersVars, loggerVars,
                   coverageVars>>

LoggerStep ==
    /\ component = "logger" /\ LoggerNext
    /\ UNCHANGED <<component, detectionVars, gimbalVars, framingVars, trackersVars, statusVars,
                   coverageVars>>

CoverageStep ==
    /\ component = "coverage" /\ CoverageNext
    /\ UNCHANGED <<component, detectionVars, gimbalVars, framingVars, trackersVars, statusVars,
                   loggerVars>>

SupportNext ==
    DetectionStep \/ GimbalStep \/ FramingStep \/ TrackersStep \/ StatusStep \/ LoggerStep
        \/ CoverageStep

supportVars == <<component, detectionVars, gimbalVars, framingVars, trackersVars, statusVars,
                 loggerVars, coverageVars>>

SupportSpec ==
    SupportInit /\ [][SupportNext]_supportVars /\ DetectionFairness /\ StatusFairness

SupportTypeOK ==
    /\ component \in Components
    /\ DetectionTypeOK /\ GimbalTypeOK /\ FramingTypeOK /\ TrackersTypeOK
    /\ StatusTypeOK /\ LoggerTypeOK /\ CoverageTypeOK
================================================================================
