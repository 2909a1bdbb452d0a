\* Three jobs in an array of two, two seconds, one restart, one resume.
SPECIFICATION FairSpec
CONSTANTS
  Capacity = 2
  Intervals = {1}
  MaxJobs = 3
  MaxNow = 2
  MaxLives = 2
  MaxResumes = 1
INVARIANTS
  RunsRight
  RowsFollowJobs
PROPERTIES
  IntervalKept
  DueJobsRun
CHECK_DEADLOCK FALSE
