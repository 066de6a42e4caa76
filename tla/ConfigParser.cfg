CONSTANTS
  Written <- MCWritten
  Styles = {"inline", "nextLine", "cgiBehind", "cgiAhead"}
  MaxErrors = 2
SPECIFICATION ConfigSpec
  
PROPERTY Ends
CHECK_DEADLOCK FALSE
