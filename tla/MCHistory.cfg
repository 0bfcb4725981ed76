CONSTANTS
  bodyA = bodyA
  bodyB = bodyB
  bodyC = bodyC
  jobSent = jobSent
  jobOwn = jobOwn
  Body = {bodyA, bodyB, bodyC}
  Job = {jobSent, jobOwn}
  From <- MCFrom
  Runs <- MCRuns
  Link <- MCLink
  Paired <- MCPaired
  PageRows = 1
  Plans <- MCPlans
  MaxFault = 1
SPECIFICATION FairHistory
CHECK_DEADLOCK FALSE
INVARIANTS FactsAreDurable PagesMerge CursorMeansSeen LogsAgree
PROPERTIES ShownAdvances Converges
