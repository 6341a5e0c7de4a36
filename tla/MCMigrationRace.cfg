SPECIFICATION Spec
CONSTANTS
    Admin = Admin
    Alarm = Alarm
    Second = Second
    Service = Service
    Shells <- OneShell
    Alarms <- OneAlarm
    Orderly = TRUE
    Lossy = FALSE
    MaxTrials = 1
    MaxFaults = 0
INVARIANT
    AutomationReturns
