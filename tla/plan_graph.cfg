SPECIFICATION PipelineSpec
CONSTANTS
  Plans <- BoundedPlans
  Launches <- BoundedLaunches
  SDKCalls <- BoundedSDKCalls
INVARIANTS GraphTypeOK CycleReportedIffCyclic LevelsSound PlanVerdict PlanFollowsManifest SettingsUsable
PROPERTY PipelineTerminates
CHECK_DEADLOCK FALSE
