SPECIFICATION BenchmarksSpec
CONSTANTS
    Triggers = {t1, t2, t3}
    Capps = {capp1}
    JobNames = {job1}
    NameOf <- SharedName
    MaxTriggers = 2
    MaxDeletions = 0
    NoJob = NoJob
    JobFaults = {}
    capp1 = capp1
    capp2 = capp2
    job1 = job1
PROPERTIES
    RunningJobIsKept
