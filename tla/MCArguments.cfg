SPECIFICATION Spec
CONSTANTS
    Tools <- MCTools
    Handler <- MCHandler
    Imported <- MCImported
    Answers <- MCAnswers
    DateFormat <- MCDateFormat
INVARIANTS
    
    
    
    
    HandlerGetsItsTypes
CHECK_DEADLOCK FALSE
