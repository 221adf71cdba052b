SPECIFICATION WizardSpec
CONSTANTS
    web = web
    Client = {web}
    Patient = TRUE
    Allowance <- QuotaFlow

    
PROPERTIES
    
    WayOutExists
CHECK_DEADLOCK FALSE
