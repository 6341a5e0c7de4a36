SPECIFICATION AttendedSpec
CONSTANTS
    Admin = Admin
    Alarm = Alarm
    Second = Second
    Service = Service
    Shells <- OneShell
    Alarms <- OneAlarm
    Orderly = TRUE
    Lossy = TRUE
    MaxTrials = 2
    MaxFaults = 3
INVARIANTS
    TypeOK
    DecisionsAgree
PROPERTIES
    ConfirmedUntouched
    TrialDecided
