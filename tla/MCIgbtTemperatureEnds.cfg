CONSTANTS
  LCD_task = LCD_task
  VT100_task = VT100_task
  Task = {LCD_task, VT100_task}
SPECIFICATION Spec
PROPERTY
  ReadingEnds
